---- MODULE Spec2Model ----
(***************************************************************************)
(* A model of the scoring engine of the Solana memecoin observatory:       *)
(* the safety scorer and the rugpull scan (utils/safetyUtils.js,           *)
(* functions/getHypeScore.js second handler), the hype scorer              *)
(* (functions/getHypeScore.js first handler), the portfolio allocator      *)
(* (functions/getPortfolioStrategy.js), the meme correlator               *)
(* (utils/socialUtils.js), the sweeps over the stored tokens               *)
(* (functions/analyzeMemeCorrelation.js, functions/trackWhaleMovements.js, *)
(* functions/scanNewMemecoins.js), the providers of the hype score         *)
(* (utils/tokenUtils.js, utils/socialUtils.js) and the server with its     *)
(* execute endpoint (index.js, utils/database.js).                         *)
(*                                                                         *)
(* Numbers.  JavaScript numbers are modelled exactly, as integers in a     *)
(* stated unit: a contract safety score is kept in fifths of a point       *)
(* (the holder deduction is (100 - holderCount) / 5), a combined safety    *)
(* score in fiftieths (0.7 and 0.3 of a value in fifths), money in cents   *)
(* or fractions of a cent, a correlation as a fraction n/d.  NaN is a      *)
(* value of its own.                                                       *)
(***************************************************************************)
EXTENDS Integers, Sequences, FiniteSets, TLC

VARIABLES
  metrics,        \* calculateSafetyScore: the metrics object it is applied to
  safetyScore,    \* calculateSafetyScore: its return value (fifths), once called
  tokens,         \* the rows of table tokens
  safety_scores,  \* the rows of table safety_scores, in insertion order
  chain,          \* what the chain and the DEX report for a mint (the providers)
  scanAnalysis,   \* runRugpullScan: its local safetyAnalysis, once computed
  scanResult,     \* runRugpullScan: how the last call ended
  social_signals, \* the rows of table social_signals, in insertion order
  social,         \* what searchTwitterMentions and crawlForTokenMentions return
  market,         \* what getTokenLiquidity returns
  hypeResult,     \* getHypeScore: how the last call ended
  processedTokens,   \* generatePortfolioAllocation: its arguments ...
  riskTolerance,
  investmentSize,
  existingPortfolio,
  portfolio,         \* ... and how the call ended
  tokenName,         \* calculateMemeCorrelation: its arguments ...
  tokenSymbol,
  trendingMemes,
  correlations,      \* ... and how the call ended
  meme_correlations, \* the rows of table meme_correlations, in insertion order
  failing,           \* the tokens for which a provider or the database fails
  log,               \* what logger.error was called with, in order
  strategyResult,    \* getPortfolioStrategy: how the last call ended
  analysisResult,    \* analyzeMemeCorrelation: how the last call ended
  whale_movements,   \* the rows of table whale_movements, in insertion order
  ledger,            \* what the RPC node reports for a mint
  whaleRequest,      \* trackWhaleMovements: the parameters of the last call
  whaleResult,       \* ... and how it ended
  providers,         \* what the market and social providers answer
  server,            \* the process: its phase, its database, its exit code
  request,           \* the body of the last POST to the execute endpoint
  response,          \* the response to it
  strategyLoop,      \* getPortfolioStrategy in progress: the tokens left
                     \* to process and the tokens processed
  recentTransactions, \* scanNewMemecoins: what the RPC node reports
  discoveryResult    \* ... and how the call ended

scoreVars == <<metrics, safetyScore>>
storeVars == <<tokens, safety_scores>>
scanVars == <<chain, scanAnalysis, scanResult>>
hypeVars == <<social_signals, social, market, hypeResult>>
portfolioVars ==
  <<processedTokens, riskTolerance, investmentSize, existingPortfolio,
    portfolio>>
memeVars == <<tokenName, tokenSymbol, trendingMemes, correlations>>
batchVars ==
  <<meme_correlations, failing, log, strategyResult, analysisResult,
    whale_movements, ledger, whaleRequest, whaleResult>>
serviceVars ==
  <<providers, server, request, response, strategyLoop, recentTransactions,
    discoveryResult>>
vars ==
  <<scoreVars, storeVars, scanVars, hypeVars, portfolioVars, memeVars,
    batchVars, serviceVars>>

\* a call that has not been made, and the value a call returned
NotCalled == [status |-> "not called"]
Returned(v) == [status |-> "returned", value |-> v]
Threw(msg) == [status |-> "threw", message |-> msg]

Min(a, b) == IF a <= b THEN a ELSE b
Max(a, b) == IF a >= b THEN a ELSE b

RECURSIVE sumOfSeq(_)
sumOfSeq(numbers) ==
  IF numbers = <<>> THEN 0 ELSE Head(numbers) + sumOfSeq(Tail(numbers))

\* JavaScript's undefined (a property an object does not have) and null
Undefined == "undefined"
Null == [null |-> TRUE]

\* Numbers that may be NaN: NaN, and the number v
NaN == [nan |-> TRUE]
Num(v) == [nan |-> FALSE, v |-> v]

RECURSIVE GCD(_, _)
GCD(a, b) == IF b = 0 THEN a ELSE GCD(b, a % b)

\* Exact fractions n/d, d > 0, in lowest terms
Q(n, d) ==
  LET g == GCD(IF n < 0 THEN -n ELSE n, d)
  IN  [n |-> n \div g, d |-> d \div g]
QMul(a, b) == Q(a.n * b.n, a.d * b.d)
QAdd(a, b) == Q(a.n * b.d + b.n * a.d, a.d * b.d)
QLeq(a, b) == a.n * b.d <= b.n * a.d
QMin(a, b) == IF QLeq(a, b) THEN a ELSE b
QMax(a, b) == IF QLeq(b, a) THEN a ELSE b

(***************************************************************************)
(* Bounds of the model.                                                    *)
(***************************************************************************)
\* holder counts 0..MaxHolderCount are enumerated; 100 and above are all
\* treated alike by the code (no deduction, no warning)
MaxHolderCount == 101
\* rows table safety_scores can hold: a scan is not started once it is full
MaxSafetyRows == 1
\* rows table social_signals can hold: a hype score is not asked for once it
\* is full
MaxSignalRows == 2
\* the most tokens generatePortfolioAllocation is given
MaxProcessedTokens == 3
\* the largest investmentSize, in cents
MaxInvestmentCents == 5
\* the most trending memes calculateMemeCorrelation is given
MaxMemes == 3

(***************************************************************************)
(* utils/safetyUtils.js                                                    *)
(***************************************************************************)
\* the metrics objects: topHolderPercentage is a percentage, holderCount a
\* number of token accounts
Metrics ==
  [mintAuthorityExists : BOOLEAN, freezeAuthorityExists : BOOLEAN,
   topHolderPercentage : 0..100, holderCount : 0..MaxHolderCount,
   hasLiquidity : BOOLEAN]

\* the deductions with that for the holder count taken from holderCount / 5
\* instead of (100 - holderCount) / 5
deductedScore_holderCountItself(m) ==
  LET s0 == 5 * 100
      s1 == IF m.mintAuthorityExists THEN s0 - 5 * 20 ELSE s0
      s2 == IF m.freezeAuthorityExists THEN s1 - 5 * 10 ELSE s1
      s3 == IF m.topHolderPercentage > 50
              THEN s2 - Min(5 * 40, 5 * (m.topHolderPercentage - 50))
              ELSE s2
      s4 == IF m.holderCount < 100
              THEN s3 - Min(5 * 20, m.holderCount)
              ELSE s3
      s5 == IF ~m.hasLiquidity THEN s4 - 5 * 30 ELSE s4
  IN  s5

\* calculateSafetyScore, lines 145-170: 100 less the deductions, in fifths of
\* a point (500 is 100 points)
deductedScore(m) ==
  LET s0 == 5 * 100
      s1 == IF m.mintAuthorityExists THEN s0 - 5 * 20 ELSE s0
      s2 == IF m.freezeAuthorityExists THEN s1 - 5 * 10 ELSE s1
      s3 == IF m.topHolderPercentage > 50
              THEN s2 - Min(5 * 40, 5 * (m.topHolderPercentage - 50))
              ELSE s2
      \* 5 * ((100 - holderCount) / 5) = 100 - holderCount
      s4 == IF m.holderCount < 100
              THEN s3 - Min(5 * 20, 100 - m.holderCount)
              ELSE s3
      s5 == IF ~m.hasLiquidity THEN s4 - 5 * 30 ELSE s4
  IN  s5

\* calculateSafetyScore without its last line, the clamp to 0..100
calculateSafetyScore_unclamped(m) == deductedScore(m)

\* calculateSafetyScore(metrics), in fifths of a point
calculateSafetyScore(m) == Max(0, Min(5 * 100, deductedScore(m)))

\* generateWarnings(metrics): the messages, each named by its subject
generateWarnings(m) ==
  LET w1 == IF m.mintAuthorityExists THEN <<"mint authority">> ELSE <<>>
      w2 == IF m.freezeAuthorityExists THEN <<"freeze authority">> ELSE <<>>
      w3 == IF m.topHolderPercentage > 50 THEN <<"concentration">> ELSE <<>>
      w4 == IF m.holderCount < 50 THEN <<"holders">> ELSE <<>>
      w5 == IF ~m.hasLiquidity THEN <<"liquidity">> ELSE <<>>
  IN  w1 \o w2 \o w3 \o w4 \o w5

\* analyzeTokenSafety(connection, tokenAddress): facts is what getMint,
\* getProgramAccounts and checkTokenLiquidity report for the mint, and
\* facts.lookupFails says that one of the first two throws
analyzeTokenSafety(tokenAddress, facts) ==
  IF facts.lookupFails
    THEN [tokenAddress |-> tokenAddress,
          safetyScore |-> 0,
          details |-> [mintAuthorityExists |-> TRUE,
                       freezeAuthorityExists |-> TRUE,
                       topHolderPercentage |-> 100,
                       holderCount |-> 0,
                       hasLiquidity |-> FALSE],
          warnings |-> <<"unable to analyze">>]
    ELSE [tokenAddress |-> tokenAddress,
          safetyScore |-> calculateSafetyScore(facts.metrics),
          details |-> facts.metrics,
          warnings |-> generateWarnings(facts.metrics)]

\* checkScamSimilarity when one of the patterns is found
checkScamSimilarity_patternFound(tokenAddress) ==
  LET scamPatterns == [highMintAuthority |-> TRUE,
                       suspiciousHolderPattern |-> FALSE,
                       recentRugPullSimilarity |-> FALSE]
      found == {p \in DOMAIN scamPatterns : scamPatterns[p]}
  IN  [tokenAddress |-> tokenAddress,
       scamScore |-> Cardinality(found) * 33,
       scamPatterns |-> scamPatterns]

\* checkScamSimilarity(tokenAddress): 33 points for each pattern found, and
\* the three patterns are the constant FALSE
checkScamSimilarity(tokenAddress) ==
  LET scamPatterns == [highMintAuthority |-> FALSE,
                       suspiciousHolderPattern |-> FALSE,
                       recentRugPullSimilarity |-> FALSE]
      found == {p \in DOMAIN scamPatterns : scamPatterns[p]}
  IN  [tokenAddress |-> tokenAddress,
       scamScore |-> Cardinality(found) * 33,
       scamPatterns |-> scamPatterns]

(***************************************************************************)
(* functions/getHypeScore.js, second handler: runRugpullScan               *)
(***************************************************************************)
\* Math.round of the fraction n/d, d > 0: floor(n/d + 1/2)
MathRound(n, d) == (2 * n + d) \div (2 * d)

\* the weights 0.7 and 0.3 exchanged
combinedSafetyScore_weightsSwapped(contractScore, scamScore) ==
  3 * contractScore + 35 * (100 - scamScore)

\* lines 197-198, in fiftieths of a point: contract is in fifths, so
\* contract * 0.7 is 7 * contract fiftieths and (100 - scam) * 0.3 is
\* 15 * (100 - scam) fiftieths
combinedSafetyScore(contractScore, scamScore) ==
  7 * contractScore + 15 * (100 - scamScore)

\* lines 200-210: the risk level of a combined score given in fiftieths
riskLevelOf(score50) ==
  IF score50 >= 50 * 80 THEN "Low"
  ELSE IF score50 >= 50 * 50 THEN "Medium"
  ELSE IF score50 >= 50 * 20 THEN "High"
  ELSE "Extreme"

\* generateRecommendations(safetyScore, safetyAnalysis, scamSimilarity):
\* the texts, each named by its subject
generateRecommendations(score50, safetyAnalysis, scamSimilarity) ==
  LET d == safetyAnalysis.details
      r0 == IF score50 < 50 * 20 THEN <<"EXTREME CAUTION">>
            ELSE IF score50 < 50 * 50 THEN <<"HIGH RISK">>
            ELSE IF score50 < 50 * 80 THEN <<"MODERATE RISK">>
            ELSE <<"LOWER RISK">>
      r1 == IF d.mintAuthorityExists THEN <<"mint authority">> ELSE <<>>
      r2 == IF d.topHolderPercentage > 50 THEN <<"concentration">> ELSE <<>>
      r3 == IF ~d.hasLiquidity THEN <<"liquidity">> ELSE <<>>
      r4 == IF scamSimilarity.scamScore > 50 THEN <<"scam similarity">> ELSE <<>>
      r5 == IF d.holderCount < 50 THEN <<"holders">> ELSE <<>>
  IN  r0 \o r1 \o r2 \o r3 \o r4 \o r5 \o <<"REMINDER">>

\* lines 191-254: the report of a scan of the stored token tokenInfo, and
\* the row it writes to safety_scores
rugpullScan(tokenInfo, facts) ==
  LET safetyAnalysis == analyzeTokenSafety(tokenInfo.address, facts)
      scamSimilarity == checkScamSimilarity(tokenInfo.address)
      \* safetyAnalysis.safetyScore is 0 or a value of calculateSafetyScore:
      \* in fifths either way
      score50 == combinedSafetyScore(safetyAnalysis.safetyScore,
                                     scamSimilarity.scamScore)
      d == safetyAnalysis.details
  IN  [safetyAnalysis |-> safetyAnalysis,
       row |-> [token_address |-> tokenInfo.address,
                contract_score |-> IF d.mintAuthorityExists THEN 50 ELSE 90,
                rugpull_risk_score |-> scamSimilarity.scamScore,
                holder_distribution_score |-> 100 - d.topHolderPercentage,
                liquidity_score |-> IF d.hasLiquidity THEN 80 ELSE 20,
                overall_safety_score |-> MathRound(score50, 50)],
       result |-> [tokenAddress |-> tokenInfo.address,
                   name |-> tokenInfo.name,
                   symbol |-> tokenInfo.symbol,
                   safetyScore |-> MathRound(score50, 50),
                   riskLevel |-> riskLevelOf(score50),
                   onChainMetrics |-> d,
                   similarityScore |-> scamSimilarity.scamScore,
                   warnings |-> safetyAnalysis.warnings \o
                     (IF scamSimilarity.scamScore > 30
                        THEN <<"scam similarity">> ELSE <<>>),
                   recommendations |->
                     generateRecommendations(score50, safetyAnalysis,
                                             scamSimilarity)]]

(***************************************************************************)
(* The stores and the providers of the scan.                               *)
(***************************************************************************)
Addresses == {"mintA", "mintB"}

\* a row of table tokens as scanNewMemecoins writes it (unnamed/part_001,
\* lines 110-125): is_memecoin is 1 in every row
TokenRow(a) ==
  [address |-> a, name |-> "name of " \o a, symbol |-> "symbol of " \o a,
   is_memecoin |-> 1]

TokenStores == {{TokenRow(a) : a \in S} : S \in SUBSET Addresses}

\* the holder counts and top-holder percentages the chain is tried with
HolderCounts == {0, 5, 49, 50, 55, 99, 100, 200}
TopHolderPercentages == {0, 50, 51, 59, 60, 90, 100}

\* what the providers report for a mint: the lookup fails, or it gives the
\* metrics; with no token account there is no top holder (lines 43-62)
ChainFacts ==
  {[lookupFails |-> TRUE]} \cup
  {[lookupFails |-> FALSE, metrics |-> m] :
     m \in {x \in [mintAuthorityExists : BOOLEAN,
                   freezeAuthorityExists : BOOLEAN,
                   topHolderPercentage : TopHolderPercentages,
                   holderCount : HolderCounts,
                   hasLiquidity : BOOLEAN] :
              x.holderCount = 0 => x.topHolderPercentage = 0}}

\* queryOne('SELECT * FROM tokens WHERE address = ? AND is_memecoin = 1')
memecoinAt(a) == {t \in tokens : t.address = a /\ t.is_memecoin = 1}

ScoreUnused == metrics = NotCalled /\ safetyScore = NotCalled

HypeUnused ==
  /\ social_signals = <<>> /\ social = NotCalled
  /\ market = NotCalled /\ hypeResult = NotCalled

PortfolioUnused ==
  /\ processedTokens = <<>> /\ riskTolerance = NotCalled
  /\ investmentSize = NotCalled /\ existingPortfolio = NotCalled
  /\ portfolio = NotCalled

MemeUnused ==
  /\ tokenName = NotCalled /\ tokenSymbol = NotCalled
  /\ trendingMemes = <<>> /\ correlations = NotCalled

BatchUnused ==
  /\ meme_correlations = <<>> /\ failing = {}
  /\ log = <<>> /\ strategyResult = NotCalled
  /\ analysisResult = NotCalled
  /\ whale_movements = <<>> /\ ledger = <<>>
  /\ whaleRequest = NotCalled /\ whaleResult = NotCalled

ServiceUnused ==
  /\ providers = NotCalled /\ server = NotCalled
  /\ request = NotCalled /\ response = NotCalled
  /\ strategyLoop = NotCalled
  /\ recentTransactions = NotCalled /\ discoveryResult = NotCalled

InitScan ==
  /\ tokens \in TokenStores
  /\ safety_scores = <<>>
  /\ chain \in ChainFacts
  /\ scanAnalysis = NotCalled
  /\ scanResult = NotCalled
  /\ ScoreUnused
  /\ HypeUnused
  /\ PortfolioUnused
  /\ MemeUnused
  /\ BatchUnused
  /\ ServiceUnused

\* !tokenAddress
\* the check of lines 11-13 when only a parameter left out counts as missing
isMissing_leftOutOnly(tokenAddress) == tokenAddress = Undefined

isMissing(tokenAddress) == tokenAddress \in {Undefined, ""}

\* handler({parameters: {tokenAddress}}), lines 174-263; executeFails: the
\* INSERT is rejected by the database
RunRugpullScanCall(tokenAddress, executeFails) ==
  /\ Len(safety_scores) < MaxSafetyRows
  /\ IF isMissing(tokenAddress)
       THEN /\ scanResult' = Threw("Token address is required")
            /\ UNCHANGED <<safety_scores, scanAnalysis>>
       ELSE IF memecoinAt(tokenAddress) = {}
         THEN /\ scanResult' =
                   Threw("Failed to run rugpull scan: Token not found: "
                           \o tokenAddress)
              /\ UNCHANGED <<safety_scores, scanAnalysis>>
       ELSE LET tokenInfo == CHOOSE t \in memecoinAt(tokenAddress) : TRUE
                scan == rugpullScan(tokenInfo, chain)
            IN  /\ scanAnalysis' = Returned(scan.safetyAnalysis)
                /\ IF executeFails
                     THEN /\ scanResult' =
                               Threw("Failed to run rugpull scan: database error")
                          /\ UNCHANGED safety_scores
                     ELSE /\ safety_scores' = Append(safety_scores, scan.row)
                          /\ scanResult' = Returned(scan.result)

\* the call on its own
RunRugpullScan(tokenAddress, executeFails) ==
  /\ RunRugpullScanCall(tokenAddress, executeFails)
  /\ UNCHANGED <<tokens, chain, scoreVars, hypeVars, portfolioVars, memeVars,
                 batchVars, serviceVars>>

NextScan ==
  \E tokenAddress \in Addresses \cup {Undefined}, executeFails \in BOOLEAN :
    RunRugpullScan(tokenAddress, executeFails)

SpecScan == InitScan /\ [][NextScan]_vars

ScanUnused ==
  /\ tokens = {} /\ safety_scores = <<>>
  /\ chain = NotCalled /\ scanAnalysis = NotCalled
  /\ scanResult = NotCalled

(***************************************************************************)
(* The safety score as a pure function: the metrics are drawn at the       *)
(* start, one step applies calculateSafetyScore to them.                   *)
(***************************************************************************)
InitScore ==
  /\ metrics \in Metrics
  /\ safetyScore = NotCalled
  /\ ScanUnused
  /\ HypeUnused
  /\ PortfolioUnused
  /\ MemeUnused
  /\ BatchUnused
  /\ ServiceUnused

CalculateSafetyScore ==
  /\ safetyScore = NotCalled
  /\ safetyScore' = Returned(calculateSafetyScore(metrics))
  /\ UNCHANGED <<metrics, storeVars, scanVars, hypeVars, portfolioVars, memeVars,
                 batchVars, serviceVars>>

NextScore == CalculateSafetyScore

SpecScore == InitScore /\ [][NextScore]_vars

(***************************************************************************)
(* functions/getHypeScore.js, first handler: getHypeScore                  *)
(*                                                                         *)
(* Time is counted in quarter days since the epoch.  A sentiment is kept   *)
(* in halves (-2..2 for -1..1).  The providers' outputs are chosen so that *)
(* every logarithm the handler takes is that of a power of ten.            *)
(***************************************************************************)
RECURSIVE IsPowerOfTen(_)
IsPowerOfTen(n) ==
  n = 1 \/ (n >= 10 /\ n % 10 = 0 /\ IsPowerOfTen(n \div 10))

\* Math.log10 of a power of ten
RECURSIVE Log10(_)
Log10(n) == IF n <= 1 THEN 0 ELSE 1 + Log10(n \div 10)

\* new Date() during a call
Today == 4 * 20000

\* new Date(tokenInfo.created_at) as a time value: an invalid date (NaN)
\* for a row without the property, the epoch for null
tokenCreatedDate(tokenInfo) ==
  IF "created_at" \notin DOMAIN tokenInfo THEN NaN
  ELSE IF tokenInfo.created_at = Null THEN Num(0)
  ELSE Num(tokenInfo.created_at.time)

\* lines 66-67: ageInDays is ageQ / 4, so 2 - ageInDays / 30 is
\* (240 - ageQ) / 120; Math.min and Math.max give NaN for NaN
ageFactorOf(created, now) ==
  IF created.nan THEN NaN
  ELSE Num(QMax(Q(1, 2), QMin(Q(3, 2), Q(240 - (now - created.v), 120))))

\* line 70
volumeFactorOf(liquidityData) ==
  QMin(Q(2, 1), QMax(Q(1, 5), Q(Log10(liquidityData.volume24h + 1), 4)))

\* the factor without the + 100: floored at 0.5 when the price has not moved
priceChangeFactorOf_changeAlone(liquidityData) ==
  QMin(Q(2, 1), QMax(Q(1, 2), Q(liquidityData.priceChange24h, 100)))

\* line 73
priceChangeFactorOf(liquidityData) ==
  QMin(Q(2, 1), QMax(Q(1, 2), Q(liquidityData.priceChange24h + 100, 100)))

\* lines 34-36
socialEngagementOf(twitterData, platformMentions) ==
  twitterData.engagement + platformMentions.reddit.count * 5
    + platformMentions.telegram.count * 3

\* line 76
socialEngagementFactorOf(socialEngagement) ==
  QMin(Q(2, 1), QMax(Q(1, 5), Q(Log10(socialEngagement + 1), 2)))

\* lines 38-61: the platforms that have mentions, each with its weight in
\* tenths and its sentiment in halves; the weighted average, 0 with no
\* mention at all
averageSentimentOf(twitterData, platformMentions) ==
  LET tw == IF twitterData.count > 0 THEN 5 ELSE 0
      rw == IF platformMentions.reddit.count > 0 THEN 3 ELSE 0
      gw == IF platformMentions.telegram.count > 0 THEN 2 ELSE 0
      weightedSentiment == Q(twitterData.sentiment * tw
                               + platformMentions.reddit.sentiment * rw
                               + platformMentions.telegram.sentiment * gw, 20)
      totalWeight == tw + rw + gw
  IN  IF totalWeight > 0
        THEN Q(weightedSentiment.n * 10, weightedSentiment.d * totalWeight)
        ELSE Q(0, 1)

\* line 79: averageSentiment * 0.5 + 1
sentimentFactorOf(averageSentiment) ==
  Q(averageSentiment.n + 2 * averageSentiment.d, 2 * averageSentiment.d)

\* lines 82-88
\* (age, volume, priceChange, engagement, sentiment: the five factors)
hypeScoreOf(age, volume, priceChange, engagement, sentiment) ==
  IF age.nan THEN NaN
  ELSE LET product == QMul(QMul(QMul(QMul(QMul(Q(20, 1), age.v), volume),
                                      priceChange),
                                 engagement),
                            sentiment)
       IN  Num(Min(100, MathRound(product.n, product.d)))

\* the report when the row counts the mentions of every platform
hypeScoreReport_allPlatforms(tokenInfo, twitterData, platformMentions, liquidityData, now) ==
  LET socialEngagement == socialEngagementOf(twitterData, platformMentions)
      averageSentiment == averageSentimentOf(twitterData, platformMentions)
      ageFactor == ageFactorOf(tokenCreatedDate(tokenInfo), now)
      volumeFactor == volumeFactorOf(liquidityData)
      priceChangeFactor == priceChangeFactorOf(liquidityData)
      socialEngagementFactor == socialEngagementFactorOf(socialEngagement)
      sentimentFactor == sentimentFactorOf(averageSentiment)
  IN  [row |-> [token_address |-> tokenInfo.address,
                platform |-> "twitter",
                mentions |-> twitterData.count + platformMentions.reddit.count
                              + platformMentions.telegram.count,
                sentiment_score |-> twitterData.sentiment,
                engagement_score |-> twitterData.engagement,
                timestamp |-> now],
       result |-> [tokenAddress |-> tokenInfo.address,
                   name |-> tokenInfo.name,
                   symbol |-> tokenInfo.symbol,
                   hypeScore |-> hypeScoreOf(ageFactor, volumeFactor,
                                             priceChangeFactor,
                                             socialEngagementFactor,
                                             sentimentFactor),
                   totalEngagement |-> socialEngagement,
                   averageSentiment |-> averageSentiment,
                   factors |-> [ageFactor |-> ageFactor,
                                volumeFactor |-> volumeFactor,
                                priceChangeFactor |-> priceChangeFactor,
                                socialEngagementFactor |->
                                  socialEngagementFactor,
                                sentimentFactor |-> sentimentFactor]]]

\* lines 25-142: the report for the stored token tokenInfo (recentMentions,
\* the texts of the mentions, left out) and the row for social_signals
hypeScoreReport(tokenInfo, twitterData, platformMentions, liquidityData, now) ==
  LET socialEngagement == socialEngagementOf(twitterData, platformMentions)
      averageSentiment == averageSentimentOf(twitterData, platformMentions)
      ageFactor == ageFactorOf(tokenCreatedDate(tokenInfo), now)
      volumeFactor == volumeFactorOf(liquidityData)
      priceChangeFactor == priceChangeFactorOf(liquidityData)
      socialEngagementFactor == socialEngagementFactorOf(socialEngagement)
      sentimentFactor == sentimentFactorOf(averageSentiment)
  IN  [row |-> [token_address |-> tokenInfo.address,
                platform |-> "twitter",
                mentions |-> twitterData.count,
                sentiment_score |-> twitterData.sentiment,
                engagement_score |-> twitterData.engagement,
                timestamp |-> now],
       result |-> [tokenAddress |-> tokenInfo.address,
                   name |-> tokenInfo.name,
                   symbol |-> tokenInfo.symbol,
                   hypeScore |-> hypeScoreOf(ageFactor, volumeFactor,
                                             priceChangeFactor,
                                             socialEngagementFactor,
                                             sentimentFactor),
                   totalEngagement |-> socialEngagement,
                   averageSentiment |-> averageSentiment,
                   factors |-> [ageFactor |-> ageFactor,
                                volumeFactor |-> volumeFactor,
                                priceChangeFactor |-> priceChangeFactor,
                                socialEngagementFactor |->
                                  socialEngagementFactor,
                                sentimentFactor |-> sentimentFactor]]]

(***************************************************************************)
(* The stores and the providers of the hype score.                         *)
(***************************************************************************)
\* the ages, in quarter days, a row with a created_at value is tried with:
\* 0, 1, 41.25, 41.5 and 60 days
TokenAges == {0, 4, 165, 166, 240}

\* the rows of mintA getHypeScore is tried with.  Table tokens as
\* createTables declares it (utils/database.js, lines 52-67) has no column
\* created_at, and SELECT * gives a row without that property: TokenRow.
\* The table is created only IF NOT EXISTS, so a database file from
\* elsewhere may carry the column, null or a date; those rows are tried too.
HypeTokenRows ==
  {TokenRow("mintA")} \cup
  {[address |-> "mintA", name |-> "name of mintA",
    symbol |-> "symbol of mintA", is_memecoin |-> 1, created_at |-> c] :
     c \in {Null} \cup {[time |-> Today - a] : a \in TokenAges}}

\* searchTwitterMentions: the zero record (no client, no tweet, an error),
\* or a count with the mean sentiment and the summed engagement
TwitterOutputs ==
  {[count |-> 0, sentiment |-> 0, engagement |-> 0]} \cup
  [count : {4}, sentiment : {-2, 1, 2}, engagement : {0, 9, 84, 99, 9999}]

\* crawlForTokenMentions: reddit has sentiment 0 with no post; telegram is
\* Math.random() for the count (0..9) and for the sentiment (-1 up to 1)
PlatformOutputs ==
  [reddit : {[count |-> 0, sentiment |-> 0]} \cup
            [count : {3}, sentiment : {-2, 2}],
   telegram : [count : {0, 3}, sentiment : {-2, 1}]]

SocialOutputs ==
  {x \in [twitterData : TwitterOutputs, platformMentions : PlatformOutputs] :
     IsPowerOfTen(socialEngagementOf(x.twitterData, x.platformMentions) + 1)}

\* getTokenLiquidity: the all-zero record (no data, an error), or the
\* provider's figures (only volume24h and priceChange24h are read)
MarketOutputs ==
  [volume24h : {0, 9999, 99999999},
   priceChange24h : {-100, 0, 100, 150}]

\* queryOne('SELECT * FROM tokens WHERE address = ?')
tokenAt(a) == {t \in tokens : t.address = a}

InitHype ==
  /\ tokens \in {{r} : r \in HypeTokenRows}
  /\ social_signals = <<>>
  /\ social \in SocialOutputs
  /\ market \in MarketOutputs
  /\ hypeResult = NotCalled
  /\ safety_scores = <<>>
  /\ chain = NotCalled /\ scanAnalysis = NotCalled /\ scanResult = NotCalled
  /\ ScoreUnused
  /\ PortfolioUnused
  /\ MemeUnused
  /\ BatchUnused
  /\ ServiceUnused

\* handler({parameters: {tokenAddress}}), lines 8-147; executeFails: the
\* INSERT is rejected by the database
GetHypeScore(tokenAddress, executeFails) ==
  /\ Len(social_signals) < MaxSignalRows
  /\ IF tokenAddress = Undefined
       THEN /\ hypeResult' = Threw("Token address is required")
            /\ UNCHANGED social_signals
       ELSE IF tokenAt(tokenAddress) = {}
         THEN /\ hypeResult' =
                   Threw("Failed to calculate hype score: Token not found: "
                           \o tokenAddress)
              /\ UNCHANGED social_signals
       ELSE LET tokenInfo == CHOOSE t \in tokenAt(tokenAddress) : TRUE
                report == hypeScoreReport(tokenInfo, social.twitterData,
                                          social.platformMentions, market,
                                          Today)
            IN  IF executeFails
                  THEN /\ hypeResult' =
                            Threw("Failed to calculate hype score: database error")
                       /\ UNCHANGED social_signals
                  ELSE /\ social_signals' = Append(social_signals, report.row)
                       /\ hypeResult' = Returned(report.result)
  /\ UNCHANGED <<tokens, social, market, safety_scores, scanVars, scoreVars,
                 portfolioVars, memeVars, batchVars, serviceVars>>

NextHype ==
  \E tokenAddress \in Addresses \cup {Undefined}, executeFails \in BOOLEAN :
    GetHypeScore(tokenAddress, executeFails)

SpecHype == InitHype /\ [][NextHype]_vars

(***************************************************************************)
(* The wrappers of the providers (utils/tokenUtils.js getTokenLiquidity,   *)
(* utils/socialUtils.js searchTwitterMentions and crawlForTokenMentions)   *)
(* and getHypeScore on top of them.                                        *)
(*                                                                         *)
(* providers holds what each provider answers: jupiter (the price API),    *)
(* twitter (Null without a client), reddit, and telegram, which is the     *)
(* two draws of Math.random() of crawlTelegramMentions.  An answer is      *)
(* [fails |-> TRUE] for a rejected request.                                *)
(***************************************************************************)
ZeroLiquidity ==
  [price |-> 0, volume24h |-> 0, liquidity |-> 0, marketCap |-> 0,
   priceChange24h |-> 0]

\* x || 0 for a number that may be missing
orZero(x) == IF x = Null THEN 0 ELSE IF x.nan THEN 0 ELSE x.v

\* utils/tokenUtils.js lines 100-134
getTokenLiquidity(answer) ==
  IF answer.fails THEN ZeroLiquidity
  ELSE IF answer.priceData = Null THEN ZeroLiquidity
  ELSE [price |-> orZero(answer.priceData.price),
        volume24h |-> orZero(answer.priceData.volume24h),
        liquidity |-> orZero(answer.priceData.liquidity),
        marketCap |-> orZero(answer.priceData.market_cap),
        priceChange24h |-> orZero(answer.priceData.price_change_24h)]

ZeroMentions == [count |-> 0, sentiment |-> 0, engagement |-> 0]

\* utils/socialUtils.js lines 94-160 (sources left out); the sentiments, in
\* halves, of the tweets tried have a mean that is a number of halves
searchTwitterMentions(answer) ==
  IF answer = Null THEN ZeroMentions
  ELSE IF answer.fails THEN ZeroMentions
  ELSE IF answer.tweets = <<>> THEN ZeroMentions
  ELSE [count |-> Len(answer.tweets),
        sentiment |->
          sumOfSeq([k \in 1..Len(answer.tweets) |->
                      answer.tweets[k].sentiment]) \div Len(answer.tweets),
        engagement |->
          sumOfSeq([k \in 1..Len(answer.tweets) |->
                      orZero(answer.tweets[k].like_count)
                        + orZero(answer.tweets[k].retweet_count)
                        + orZero(answer.tweets[k].reply_count)])]

\* a failure of reddit zeroes the telegram part too
crawlForTokenMentions_outerCatch(reddit, telegram) ==
  IF reddit.fails
    THEN [reddit |-> [count |-> 0, sentiment |-> 0],
          telegram |-> [count |-> 0, sentiment |-> 0]]
    ELSE [reddit |->
            [count |-> Len(reddit.posts),
             sentiment |->
               IF Len(reddit.posts) > 0
                 THEN sumOfSeq([k \in 1..Len(reddit.posts) |->
                                  reddit.posts[k].sentiment])
                        \div Len(reddit.posts)
                 ELSE 0],
          telegram |-> [count |-> telegram.count,
                        sentiment |-> telegram.sentiment]]

\* utils/socialUtils.js lines 168-251 (posts and channels left out): a
\* failure of reddit is caught where it happens and leaves no post;
\* crawlTelegramMentions (lines 259-291) asks no provider and gives its draws
crawlForTokenMentions(reddit, telegram) ==
  LET redditPosts == IF reddit.fails THEN <<>> ELSE reddit.posts
  IN  [reddit |->
         [count |-> Len(redditPosts),
          sentiment |->
            IF Len(redditPosts) > 0
              THEN sumOfSeq([k \in 1..Len(redditPosts) |->
                               redditPosts[k].sentiment]) \div Len(redditPosts)
              ELSE 0],
       telegram |-> [count |-> telegram.count,
                     sentiment |-> telegram.sentiment]]

PriceData(price, volume24h, liquidity, market_cap, price_change_24h) ==
  [price |-> price, volume24h |-> volume24h, liquidity |-> liquidity,
   market_cap |-> market_cap, price_change_24h |-> price_change_24h]

JupiterAnswers ==
  {[fails |-> TRUE],
   [fails |-> FALSE, priceData |-> Null],
   [fails |-> FALSE, priceData |-> PriceData(Null, Null, Null, Null, Null)],
   [fails |-> FALSE,
    priceData |-> PriceData(Num(2), Num(9999), Num(500), Null, Num(150))]}

Tweet(sentiment, likes, retweets, replies) ==
  [sentiment |-> sentiment, like_count |-> likes, retweet_count |-> retweets,
   reply_count |-> replies]

TwitterAnswers ==
  {Null,
   [fails |-> TRUE],
   [fails |-> FALSE, tweets |-> <<>>],
   [fails |-> FALSE, tweets |-> <<Tweet(2, Num(4), Num(3), Num(2))>>],
   [fails |-> FALSE,
    tweets |-> <<Tweet(-2, Num(80), Null, Num(1)), Tweet(-2, Null, Num(3), Null)>>]}

RedditAnswers ==
  {[fails |-> TRUE],
   [fails |-> FALSE, posts |-> <<>>],
   [fails |-> FALSE,
    posts |-> <<[sentiment |-> 2], [sentiment |-> 2], [sentiment |-> 2]>>]}

\* Math.floor(Math.random() * 10) and Math.random() * 2 - 1, in halves
TelegramDraws == [count : {0, 3, 5}, sentiment : {-2, 1}]

\* the answers after which socialEngagement + 1 is a power of ten
ProviderAnswers ==
  {x \in [jupiter : JupiterAnswers, twitter : TwitterAnswers,
          reddit : RedditAnswers, telegram : TelegramDraws] :
     IsPowerOfTen(
       socialEngagementOf(searchTwitterMentions(x.twitter),
                          crawlForTokenMentions(x.reddit, x.telegram)) + 1)}

InitProviders ==
  /\ tokens \in {{r} : r \in HypeTokenRows}
  /\ providers \in ProviderAnswers
  /\ social_signals = <<>>
  /\ social = NotCalled
  /\ market = NotCalled
  /\ hypeResult = NotCalled
  /\ safety_scores = <<>>
  /\ chain = NotCalled /\ scanAnalysis = NotCalled /\ scanResult = NotCalled
  /\ ScoreUnused
  /\ PortfolioUnused
  /\ MemeUnused
  /\ BatchUnused
  /\ server = NotCalled /\ request = NotCalled /\ response = NotCalled
  /\ strategyLoop = NotCalled
  /\ recentTransactions = NotCalled /\ discoveryResult = NotCalled

\* handler({parameters: {tokenAddress}}) of functions/getHypeScore.js, lines
\* 8-147, with lines 27-31 asking the providers; executeFails: the INSERT is
\* rejected by the database
GetHypeScoreCall(tokenAddress, executeFails) ==
  /\ Len(social_signals) < MaxSignalRows
  /\ IF isMissing(tokenAddress)
       THEN /\ hypeResult' = Threw("Token address is required")
            /\ UNCHANGED <<social_signals, social, market>>
       ELSE IF tokenAt(tokenAddress) = {}
         THEN /\ hypeResult' =
                   Threw("Failed to calculate hype score: Token not found: "
                           \o tokenAddress)
              /\ UNCHANGED <<social_signals, social, market>>
       ELSE LET tokenInfo == CHOOSE t \in tokenAt(tokenAddress) : TRUE
                twitterData == searchTwitterMentions(providers.twitter)
                platformMentions ==
                  crawlForTokenMentions(providers.reddit, providers.telegram)
                liquidityData == getTokenLiquidity(providers.jupiter)
                report == hypeScoreReport(tokenInfo, twitterData,
                                          platformMentions, liquidityData,
                                          Today)
            IN  /\ social' = [twitterData |-> twitterData,
                              platformMentions |-> platformMentions]
                /\ market' = liquidityData
                /\ IF executeFails
                     THEN /\ hypeResult' =
                               Threw("Failed to calculate hype score: database error")
                          /\ UNCHANGED social_signals
                     ELSE /\ social_signals' =
                               Append(social_signals, report.row)
                          /\ hypeResult' = Returned(report.result)

\* the call on its own
GetHypeScoreFromProviders(tokenAddress, executeFails) ==
  /\ hypeResult = NotCalled
  /\ GetHypeScoreCall(tokenAddress, executeFails)
  /\ UNCHANGED <<tokens, safety_scores, scanVars, scoreVars, portfolioVars,
                 memeVars, batchVars, serviceVars>>

NextProviders ==
  \E tokenAddress \in Addresses \cup {Undefined}, executeFails \in BOOLEAN :
    GetHypeScoreFromProviders(tokenAddress, executeFails)

SpecProviders == InitProviders /\ [][NextProviders]_vars

(***************************************************************************)
(* The server (index.js): the functions loaded from the directory          *)
(* functions, the start of the process and the execute endpoint.           *)
(***************************************************************************)
\* lines 53-74: the own properties of the object functions
LoadedFunctions ==
  {"analyzeMemeCorrelation", "getHypeScore", "getPortfolioStrategy",
   "runRugpullScan", "scanNewMemecoins", "trackWhaleMovements"}

\* functions is an object literal: functions[name] finds the members of
\* Object.prototype too, of which these are tried
functionAt(name) ==
  IF name \in LoadedFunctions THEN [kind |-> "handler", name |-> name]
  ELSE IF name \in {"toString", "hasOwnProperty"}
    THEN [kind |-> "Object.prototype function", name |-> name]
  ELSE IF name = "__proto__" THEN [kind |-> "Object.prototype"]
  ELSE Null

\* lines 113 and 116
responseOf(outcome) ==
  IF outcome.status = "returned"
    THEN [status |-> 200, body |-> [result |-> outcome.value]]
    ELSE [status |-> 500, body |-> [error |-> outcome.message]]

\* the bodies POSTed: a handler of the two modelled here, a name that no
\* object has, the empty name and three names of Object.prototype
RequestNames ==
  {"getHypeScore", "runRugpullScan", "getHypeScores", "", "toString",
   "hasOwnProperty", "__proto__"}

RequestParameters == [tokenAddress : {Undefined, "", "mintA", "mintB"}]

ServerChainFacts ==
  {[lookupFails |-> TRUE],
   [lookupFails |-> FALSE,
    metrics |-> [mintAuthorityExists |-> FALSE, freezeAuthorityExists |-> FALSE,
                 topHolderPercentage |-> 50, holderCount |-> 200,
                 hasLiquidity |-> TRUE]]}

ServerProviderAnswers ==
  {x \in ProviderAnswers :
     /\ x.jupiter.fails /\ x.reddit.fails /\ x.telegram.sentiment = 1
     /\ x.twitter # Null
     /\ IF x.twitter.fails THEN TRUE ELSE Len(x.twitter.tweets) = 1}

Starting == [phase |-> "starting", database |-> "not initialized"]

InitServer ==
  /\ server = Starting
  /\ request = NotCalled
  /\ response = NotCalled
  /\ strategyLoop = NotCalled
  /\ recentTransactions = NotCalled /\ discoveryResult = NotCalled
  /\ tokens \in TokenStores
  /\ chain \in ServerChainFacts
  /\ providers \in ServerProviderAnswers
  /\ safety_scores = <<>>
  /\ social_signals = <<>>
  /\ scanAnalysis = NotCalled /\ scanResult = NotCalled
  /\ social = NotCalled /\ market = NotCalled /\ hypeResult = NotCalled
  /\ ScoreUnused
  /\ PortfolioUnused
  /\ MemeUnused
  /\ BatchUnused

\* the start of the process when app.listen does not wait for the promise
InitializeDatabase_listensAtOnce(outcome) ==
  /\ server = Starting
  /\ server' =
       [phase |-> "listening",
        database |-> IF outcome = "tables created"
                       THEN "initialized" ELSE "not initialized"]
  /\ UNCHANGED <<request, response, providers, strategyLoop,
                 recentTransactions, discoveryResult, scoreVars,
                 storeVars, scanVars, hypeVars, portfolioVars, memeVars,
                 batchVars>>

\* lines 227-240 with initializeDatabase (utils/database.js lines 12-42):
\* the promise is resolved once the tables are created, and only then is
\* app.listen called; it is rejected when the file cannot be opened, the
\* PRAGMA fails or a table cannot be created, and then the process exits
InitializeDatabase(outcome) ==
  /\ server = Starting
  /\ server' =
       IF outcome = "tables created"
         THEN [phase |-> "listening", database |-> "initialized"]
         ELSE [phase |-> "exited", database |-> "not initialized",
               exitCode |-> 1, error |-> outcome]
  /\ UNCHANGED <<request, response, providers, strategyLoop,
                 recentTransactions, discoveryResult, scoreVars,
                 storeVars, scanVars, hypeVars, portfolioVars, memeVars,
                 batchVars>>

\* app.post(config.mcp.executeUrl), lines 92-118, for the body
\* {name, parameters}; executeFails: the INSERT of the handler is rejected
Execute(name, parameters, executeFails) ==
  /\ server.phase = "listening"
  /\ request' = [name |-> name, parameters |-> parameters]
  /\ LET function == functionAt(name)
     IN  IF function = Null
           THEN /\ response' =
                     [status |-> 400,
                      body |-> [error |-> "Function " \o name \o " not found"]]
                /\ UNCHANGED <<storeVars, scanVars, hypeVars>>
         ELSE IF function.kind = "Object.prototype"
           THEN /\ response' =
                     responseOf(Threw("functions[name] is not a function"))
                /\ UNCHANGED <<storeVars, scanVars, hypeVars>>
         ELSE IF function.kind = "Object.prototype function"
           THEN /\ response' =
                     responseOf(Returned(IF name = "toString"
                                           THEN "[object Object]"
                                           ELSE "false"))
                /\ UNCHANGED <<storeVars, scanVars, hypeVars>>
         ELSE IF name = "getHypeScore"
           THEN /\ GetHypeScoreCall(parameters.tokenAddress, executeFails)
                /\ response' = responseOf(hypeResult')
                /\ UNCHANGED <<tokens, safety_scores, scanVars>>
           ELSE /\ name = "runRugpullScan"
                /\ RunRugpullScanCall(parameters.tokenAddress, executeFails)
                /\ response' = responseOf(scanResult')
                /\ UNCHANGED <<tokens, chain, hypeVars>>
  /\ UNCHANGED <<server, providers, strategyLoop, recentTransactions,
                 discoveryResult, scoreVars, portfolioVars,
                 memeVars, batchVars>>

NextServer ==
  \/ \E outcome \in {"tables created", "Error opening database",
                     "Error enabling foreign keys", "Error creating tables"} :
       InitializeDatabase(outcome)
  \/ \E name \in RequestNames, parameters \in RequestParameters,
        executeFails \in BOOLEAN :
       Execute(name, parameters, executeFails)

SpecServer == InitServer /\ [][NextServer]_vars

(***************************************************************************)
(* functions/getPortfolioStrategy.js: generatePortfolioAllocation          *)
(*                                                                         *)
(* Money is counted in cents, a ratio of the presets in tenths, an         *)
(* opportunityScore in hundredths.  The amounts are computed exactly; on   *)
(* the investment sizes tried here the handler's floating point            *)
(* arithmetic gives the same cents.                                        *)
(***************************************************************************)
\* a preset for conservative that leaves a tenth to the speculative bucket
parametersOf_conservativeLeavesTenth(tolerance) ==
  IF tolerance = "conservative"
    THEN [maxTokens |-> 3, estabRatio |-> 8, newRatio |-> 1, specRatio |-> 1,
          minSafetyScore |-> 70]
    ELSE [maxTokens |-> 5, estabRatio |-> 6, newRatio |-> 3, specRatio |-> 1,
          minSafetyScore |-> 60]

\* lines 244-285
parametersOf(tolerance) ==
  CASE tolerance = "conservative" ->
         [maxTokens |-> 3, estabRatio |-> 8, newRatio |-> 2, specRatio |-> 0,
          minSafetyScore |-> 70]
    [] tolerance = "aggressive" ->
         [maxTokens |-> 7, estabRatio |-> 4, newRatio |-> 4, specRatio |-> 2,
          minSafetyScore |-> 40]
    [] tolerance = "very_aggressive" ->
         [maxTokens |-> 10, estabRatio |-> 2, newRatio |-> 5, specRatio |-> 3,
          minSafetyScore |-> 30]
    [] OTHER ->
         [maxTokens |-> 5, estabRatio |-> 6, newRatio |-> 3, specRatio |-> 1,
          minSafetyScore |-> 60]

\* .sort((a, b) => b.opportunityScore - a.opportunityScore): descending,
\* stable
RECURSIVE sortByOpportunity(_)
sortByOpportunity(list) ==
  IF list = <<>> THEN <<>>
  ELSE LET rest == sortByOpportunity(Tail(list))
           k == Cardinality({i \in 1..Len(rest) :
                  rest[i].opportunityScore > Head(list).opportunityScore})
       IN  SubSeq(rest, 1, k) \o <<Head(list)>> \o SubSeq(rest, k + 1, Len(rest))

\* .slice(0, count)
slice(list, count) == SubSeq(list, 1, Min(count, Len(list)))

\* lines 287-290
establishedOf(list, parameters) ==
  slice(SelectSeq(list, LAMBDA t : t.safetyScore >= parameters.minSafetyScore),
        Max(1, (parameters.maxTokens * 4) \div 10))

\* lines 292-295
newTokensOf(list, parameters) ==
  slice(sortByOpportunity(
          SelectSeq(list, LAMBDA t :
            /\ 10 * t.safetyScore >= 7 * parameters.minSafetyScore
            /\ t.safetyScore < parameters.minSafetyScore)),
        Max(1, (parameters.maxTokens * 4) \div 10))

\* lines 297-300
speculativeOf(list, parameters) ==
  slice(sortByOpportunity(
          SelectSeq(list, LAMBDA t :
            10 * t.safetyScore < 7 * parameters.minSafetyScore)),
        Max(1, (parameters.maxTokens * 2) \div 10))

\* no filter for the tokens already held
notHeld_keepsAll(list, existing) == list

\* lines 302-309
notHeld(list, existing) ==
  LET existingAddresses == {existing[i].address : i \in 1..Len(existing)}
  IN  SelectSeq(list, LAMBDA t : t.address \notin existingAddresses)

\* the amount when the bucket's allocation is split evenly
bucketAmount_evenSplit(allocation, n, index) == QMul(allocation, Q(1, n))

\* lines 320-321, 337-338 and 351-352: the amount, before it is rounded, of
\* the token at index of the n tokens of a bucket
bucketAmount(allocation, n, index) ==
  LET weight == Q(2 * n - index, 2 * n)
  IN  QMul(QMul(allocation, weight), Q(1, n))

\* one forEach of lines 318-360: the bucket's allocation (a fraction of
\* cents) over the tokens of the bucket, each amount rounded to the cent
bucketAllocations(filtered, allocation, category, reasoning) ==
  [k \in 1..Len(filtered) |->
     LET amount == bucketAmount(allocation, Len(filtered), k - 1)
     IN  [token |-> filtered[k],
          amount |-> MathRound(amount.n, amount.d),
          category |-> category,
          reasoning |-> reasoning]]

\* the allocations when the tokens held are removed before a bucket is cut to
\* its cap
allocationsOf_heldRemovedFirst(list, tolerance, size, existing) ==
  LET parameters == parametersOf(tolerance)
      estabAllocation == Q(size * parameters.estabRatio, 10)
      newAllocation == Q(size * parameters.newRatio, 10)
      remainingAllocation ==
        Q(size * (10 - parameters.estabRatio - parameters.newRatio), 10)
  IN  bucketAllocations(establishedOf(notHeld(list, existing), parameters),
                        estabAllocation, "established",
                        "Lower risk established memecoin with good market metrics")
      \o bucketAllocations(newTokensOf(notHeld(list, existing), parameters),
                           newAllocation, "new",
                           "Moderate risk newer memecoin showing promising signals")
      \o bucketAllocations(speculativeOf(notHeld(list, existing), parameters),
                           remainingAllocation, "speculative",
                           "Higher risk speculative memecoin with potential for significant returns")

\* lines 311-360
allocationsOf(list, tolerance, size, existing) ==
  LET parameters == parametersOf(tolerance)
      estabAllocation == Q(size * parameters.estabRatio, 10)
      newAllocation == Q(size * parameters.newRatio, 10)
      remainingAllocation ==
        Q(size * (10 - parameters.estabRatio - parameters.newRatio), 10)
  IN  bucketAllocations(notHeld(establishedOf(list, parameters), existing),
                        estabAllocation, "established",
                        "Lower risk established memecoin with good market metrics")
      \o bucketAllocations(notHeld(newTokensOf(list, parameters), existing),
                           newAllocation, "new",
                           "Moderate risk newer memecoin showing promising signals")
      \o bucketAllocations(notHeld(speculativeOf(list, parameters), existing),
                           remainingAllocation, "speculative",
                           "Higher risk speculative memecoin with potential for significant returns")

\* lines 243-384; of a recommendation, name, symbol and the percentage
\* string are left out
generatePortfolioAllocation(list, tolerance, size, existing) ==
  LET parameters == parametersOf(tolerance)
      allocations == allocationsOf(list, tolerance, size, existing)
  IN  [totalInvestment |-> size,
       riskTolerance |-> tolerance,
       recommendations |->
         [k \in 1..Len(allocations) |->
            [tokenAddress |-> allocations[k].token.address,
             amount |-> allocations[k].amount,
             reasoning |-> allocations[k].reasoning,
             opportunityScore |-> allocations[k].token.opportunityScore,
             safetyScore |-> allocations[k].token.safetyScore]],
       categories |-> [established |-> 10 * parameters.estabRatio,
                       new |-> 10 * parameters.newRatio,
                       speculative |-> 10 * parameters.specRatio]]

(***************************************************************************)
(* The allocation as a pure function: the arguments are drawn at the       *)
(* start, one step applies generatePortfolioAllocation to them.            *)
(***************************************************************************)
TokenAddress(i) == "mint" \o ToString(i)

SafetyScores == {20, 28, 45, 60, 90}
OpportunityScores == {30, 50}

\* the handler passes the processed tokens sorted by opportunityScore,
\* descending (line 100)
ProcessedTokenLists ==
  UNION {{[i \in 1..n |-> [address |-> TokenAddress(i),
                           safetyScore |-> ss[i],
                           opportunityScore |-> os[i]]] :
            ss \in [1..n -> SafetyScores],
            os \in {o \in [1..n -> OpportunityScores] :
                      \A i \in 1..(n - 1) : o[i] >= o[i + 1]}} :
         n \in 0..MaxProcessedTokens}

\* Undefined: a tolerance that is none of the four cases of the switch
RiskTolerances ==
  {"conservative", "moderate", "aggressive", "very_aggressive", Undefined}

InvestmentSizes == 0..MaxInvestmentCents

ExistingPortfolios ==
  {<<>>, <<[address |-> TokenAddress(1)]>>, <<[address |-> TokenAddress(2)]>>}

InitPortfolio ==
  /\ processedTokens \in ProcessedTokenLists
  /\ riskTolerance \in RiskTolerances
  /\ investmentSize \in InvestmentSizes
  /\ existingPortfolio \in ExistingPortfolios
  /\ portfolio = NotCalled
  /\ ScoreUnused
  /\ ScanUnused
  /\ HypeUnused
  /\ MemeUnused
  /\ BatchUnused
  /\ ServiceUnused

GeneratePortfolioAllocation ==
  /\ portfolio = NotCalled
  /\ portfolio' = Returned(generatePortfolioAllocation(
                             processedTokens, riskTolerance, investmentSize,
                             existingPortfolio))
  /\ UNCHANGED <<processedTokens, riskTolerance, investmentSize,
                 existingPortfolio, scoreVars, storeVars, scanVars, hypeVars,
                 memeVars, batchVars, serviceVars>>

NextPortfolio == GeneratePortfolioAllocation

SpecPortfolio == InitPortfolio /\ [][NextPortfolio]_vars

(***************************************************************************)
(* utils/socialUtils.js: calculateMemeCorrelation                          *)
(*                                                                         *)
(* A string is a sequence of one-character strings.  A correlation is an   *)
(* exact fraction; on the names tried here the function's floating point   *)
(* arithmetic orders and filters the same way.                             *)
(***************************************************************************)
UpperCase ==
  <<"A", "B", "C", "D", "E", "F", "G", "H", "I", "J", "M", "N", "O", "Q", "T",
    "Z">>
LowerCase ==
  <<"a", "b", "c", "d", "e", "f", "g", "h", "i", "j", "m", "n", "o", "q", "t",
    "z">>

\* String.prototype.toLowerCase
toLowerCase(str) ==
  [i \in 1..Len(str) |->
     IF \E k \in 1..Len(UpperCase) : UpperCase[k] = str[i]
       THEN LowerCase[CHOOSE k \in 1..Len(UpperCase) : UpperCase[k] = str[i]]
       ELSE str[i]]

\* String.prototype.toUpperCase
toUpperCase(str) ==
  [i \in 1..Len(str) |->
     IF \E k \in 1..Len(LowerCase) : LowerCase[k] = str[i]
       THEN UpperCase[CHOOSE k \in 1..Len(LowerCase) : LowerCase[k] = str[i]]
       ELSE str[i]]

\* \w of a regular expression: letters, digits and the underscore (of the
\* characters used here)
WordCharacters ==
  {UpperCase[k] : k \in 1..Len(UpperCase)} \cup
  {LowerCase[k] : k \in 1..Len(LowerCase)} \cup {"_"}

\* str.split(/\W+/).filter(Boolean), current being the word read so far
RECURSIVE splitWords(_, _)
splitWords(str, current) ==
  LET finished == IF current = <<>> THEN <<>> ELSE <<current>>
  IN  IF str = <<>> THEN finished
      ELSE IF Head(str) \in WordCharacters
        THEN splitWords(Tail(str), Append(current, Head(str)))
        ELSE finished \o splitWords(Tail(str), <<>>)

\* Array.prototype.includes
includesWord(list, word) == \E i \in 1..Len(list) : list[i] = word

\* String.prototype.includes
includesString(str, part) ==
  \E i \in 0..(Len(str) - Len(part)) : SubSeq(str, i + 1, i + Len(part)) = part

\* lines 401-408: the word overlap of the lowercased names
wordOverlap(tokenNameLC, memeName) ==
  LET tokenWords == splitWords(tokenNameLC, <<>>)
      memeWords == splitWords(memeName, <<>>)
      intersection ==
        Len(SelectSeq(tokenWords, LAMBDA word : includesWord(memeWords, word)))
      union == Cardinality({tokenWords[i] : i \in 1..Len(tokenWords)} \cup
                           {memeWords[i] : i \in 1..Len(memeWords)})
  IN  IF intersection > 0 THEN Q(intersection, union) ELSE Q(0, 1)

\* lines 399-416: the correlation of one meme
correlationOf_uncapped(tokenNameLC, tokenSymbolLC, meme) ==
  LET memeName == toLowerCase(meme.name)
      jaccard == wordOverlap(tokenNameLC, memeName)
  IN  IF includesString(memeName, tokenSymbolLC)
        THEN QAdd(jaccard, Q(3, 10))
        ELSE jaccard

correlationOf(tokenNameLC, tokenSymbolLC, meme) ==
  QMin(correlationOf_uncapped(tokenNameLC, tokenSymbolLC, meme), Q(1, 1))

\* lines 398-426: the loop, pushing the memes whose correlation is above 0.1
\* (date, copied through, is left out)
RECURSIVE pushedCorrelations(_, _, _)
pushedCorrelations(tokenNameLC, tokenSymbolLC, memes) ==
  IF memes = <<>> THEN <<>>
  ELSE LET meme == Head(memes)
           correlation == correlationOf(tokenNameLC, tokenSymbolLC, meme)
           rest == pushedCorrelations(tokenNameLC, tokenSymbolLC, Tail(memes))
       IN  IF ~QLeq(correlation, Q(1, 10))
             THEN <<[meme |-> meme.name, correlation |-> correlation,
                     source |-> meme.source]>> \o rest
             ELSE rest

\* .sort((a, b) => b.correlation - a.correlation): descending, stable
RECURSIVE sortByCorrelation(_)
sortByCorrelation(list) ==
  IF list = <<>> THEN <<>>
  ELSE LET rest == sortByCorrelation(Tail(list))
           k == Cardinality({i \in 1..Len(rest) :
                  ~QLeq(rest[i].correlation, Head(list).correlation)})
       IN  SubSeq(rest, 1, k) \o <<Head(list)>> \o SubSeq(rest, k + 1, Len(rest))

calculateMemeCorrelation_unsorted(name, symbol, memes) ==
  pushedCorrelations(toLowerCase(name), toLowerCase(symbol), memes)

\* lines 392-429
calculateMemeCorrelation(name, symbol, memes) ==
  sortByCorrelation(
    pushedCorrelations(toLowerCase(name), toLowerCase(symbol), memes))

(***************************************************************************)
(* The correlation as a pure function: the arguments are drawn at the      *)
(* start, one step applies calculateMemeCorrelation to them.               *)
(***************************************************************************)
\* "Doge", "Doge Moon", "go-go cat", "a b c d e", "zz"
TokenNames ==
  {<<"D", "o", "g", "e">>,
   <<"D", "o", "g", "e", " ", "M", "o", "o", "n">>,
   <<"g", "o", "-", "g", "o", " ", "c", "a", "t">>,
   <<"a", " ", "b", " ", "c", " ", "d", " ", "e">>,
   <<"z", "z">>}

\* "DOGE", "e", "", "qq"
TokenSymbols ==
  {<<"D", "O", "G", "E">>,
   <<"e">>,
   <<>>,
   <<"q", "q">>}

\* memes as trackTrendingMemes lists them
SampleMemes ==
  {[name |-> <<"D", "o", "g", "e">>,
    source |-> "popular culture"],
   [name |-> <<"d", "o", "g", "e">>,
    source |-> "reddit"],
   [name |-> <<"M", "o", "o", "n", " ", "d", "o", "g", "e", "!">>,
    source |-> "reddit"],
   [name |-> <<"e", " ", "f", " ", "g", " ", "h", " ", "i", " ", "j">>,
    source |-> "reddit"],
   [name |-> <<"e", " ", "f", " ", "g", " ", "h", " ", "i">>,
    source |-> "crypto culture"],
   [name |-> <<"g", "o", " ", "c", "a", "t">>,
    source |-> "reddit"],
   [name |-> <<"D", "o", "g", "e", "_", "m", "o", "o", "n">>,
    source |-> "reddit"]}

\* trackTrendingMemes lists no name twice
TrendingMemeLists ==
  UNION {{l \in [1..n -> SampleMemes] :
            \A i, j \in 1..n : l[i].name = l[j].name => i = j} :
         n \in 0..MaxMemes}

InitMeme ==
  /\ tokenName \in TokenNames
  /\ tokenSymbol \in TokenSymbols
  /\ trendingMemes \in TrendingMemeLists
  /\ correlations = NotCalled
  /\ ScoreUnused
  /\ ScanUnused
  /\ HypeUnused
  /\ PortfolioUnused
  /\ BatchUnused
  /\ ServiceUnused

CalculateMemeCorrelation ==
  /\ correlations = NotCalled
  /\ correlations' = Returned(calculateMemeCorrelation(
                                tokenName, tokenSymbol, trendingMemes))
  /\ UNCHANGED <<tokenName, tokenSymbol, trendingMemes, scoreVars, storeVars,
                 scanVars, hypeVars, portfolioVars, batchVars, serviceVars>>

NextMeme == CalculateMemeCorrelation

SpecMeme == InitMeme /\ [][NextMeme]_vars

(***************************************************************************)
(* functions/getPortfolioStrategy.js: the scores of a processed token      *)
(*                                                                         *)
(* The factors and scores are exact fractions.                             *)
(***************************************************************************)
\* new Date(token.creation_date || token.created_at) as a time value: a
\* column that is null gives way to created_at, which is undefined in a row
\* without the property (an invalid date) and may be null (the epoch)
noveltyDate(token) ==
  IF token.creation_date # Null THEN Num(token.creation_date.time)
  ELSE IF "created_at" \notin DOMAIN token THEN NaN
  ELSE IF token.created_at = Null THEN Num(0)
  ELSE Num(token.created_at.time)

\* lines 132-149; every comparison with NaN is false
calculateNoveltyFactor(created, now) ==
  IF created.nan THEN Q(1, 5)
  ELSE LET ageQ == now - created.v
       IN  IF ageQ < 4 * 1 THEN Q(1, 1)
           ELSE IF ageQ < 4 * 7 THEN Q(4, 5)
           ELSE IF ageQ < 4 * 30 THEN Q(3, 5)
           ELSE IF ageQ < 4 * 90 THEN Q(2, 5)
           ELSE Q(1, 5)

Abs(n) == IF n < 0 THEN -n ELSE n

\* lines 156-170
calculateMarketFactor(marketData) ==
  LET priceChangeFactor ==
        IF marketData.priceChange24h > 0
          THEN QAdd(QMin(Q(1, 1), Q(marketData.priceChange24h, 100)), Q(1, 2))
          ELSE QMax(Q(0, 1), Q(50 - Abs(marketData.priceChange24h), 100))
      volumeFactor == QMin(Q(1, 1), Q(Log10(marketData.volume24h + 1), 6))
      liquidityFactor ==
        QMin(Q(1, 1), Q(Log10(marketData.liquidity + 1), 6))
  IN  QAdd(QAdd(QMul(priceChangeFactor, Q(2, 5)), QMul(volumeFactor, Q(3, 10))),
           QMul(liquidityFactor, Q(3, 10)))

\* lines 179-185; score is the safety score in points
calculateRiskAdjustedScore(score, noveltyFactor, marketFactor) ==
  QAdd(QAdd(QMul(Q(score, 100), Q(1, 2)), QMul(noveltyFactor, Q(1, 4))),
       QMul(marketFactor, Q(1, 4)))

\* lines 192-210; socialData is the row of aggregates, a sum or an average
\* over no row being Null
calculateSocialScore(socialData) ==
  IF socialData.total_mentions = Null \/ socialData.total_mentions = Num(0)
    THEN Q(3, 10)
    ELSE LET mentionsFactor ==
               QMin(Q(1, 1), Q(Log10(socialData.total_mentions.v + 1), 3))
             engagementFactor ==
               QMin(Q(1, 1), Q(Log10(socialData.total_engagement.v + 1), 4))
             sentimentFactor ==
               IF socialData.avg_sentiment = Null
                    \/ socialData.avg_sentiment.v.n = 0
                 THEN Q(1, 2)
                 ELSE QMul(QAdd(socialData.avg_sentiment.v, Q(1, 1)), Q(1, 2))
         IN  QAdd(QAdd(QMul(mentionsFactor, Q(2, 5)),
                       QMul(engagementFactor, Q(3, 10))),
                  QMul(sentimentFactor, Q(3, 10)))

RECURSIVE sumOfCorrelationScores(_)
sumOfCorrelationScores(rows) ==
  IF rows = <<>> THEN Q(0, 1)
  ELSE QAdd(Head(rows).correlation_score, sumOfCorrelationScores(Tail(rows)))

\* lines 217-232
calculateMemeScore(memeCorrelations) ==
  IF Len(memeCorrelations) = 0 THEN Q(1, 5)
  ELSE LET avgCorrelation ==
             QMul(sumOfCorrelationScores(memeCorrelations),
                  Q(1, Len(memeCorrelations)))
           countBonus == QMin(Q(3, 10), Q(Len(memeCorrelations) * 5, 100))
       IN  QMin(Q(1, 1), QAdd(avgCorrelation, countBonus))

\* the three scores with the same weight
opportunityScoreOf_evenWeights(riskAdjustedScore, socialScore, memeScore) ==
  QMul(QAdd(QAdd(riskAdjustedScore, socialScore), memeScore), Q(1, 3))

\* lines 70-74
opportunityScoreOf(riskAdjustedScore, socialScore, memeScore) ==
  QAdd(QAdd(QMul(riskAdjustedScore, Q(2, 5)), QMul(socialScore, Q(3, 10))),
       QMul(memeScore, Q(3, 10)))

(***************************************************************************)
(* functions/getPortfolioStrategy.js: the handler                          *)
(*                                                                         *)
(* chain and market give, for every address, what the providers report for *)
(* it.  An opportunityScore is counted in 12000ths, a unit in which all    *)
(* the scores reached here are whole.                                      *)
(***************************************************************************)
OpportunityUnit == 12 * 1000

\* ORDER BY creation_date DESC of lines 16-23: the newest first, NULL last
creationKey(token) ==
  IF token.creation_date = Null THEN -1 ELSE token.creation_date.time

RECURSIVE newestFirst(_)
newestFirst(rows) ==
  IF rows = {} THEN <<>>
  ELSE LET first == CHOOSE r \in rows :
                      \A o \in rows : creationKey(o) <= creationKey(r)
       IN  <<first>> \o newestFirst(rows \ {first})

\* the scalar subquery of lines 17-18: overall_safety_score of the first row
\* of the token in safety_scores, NULL without one
storedSafetyScore(rows, address) ==
  LET own == SelectSeq(rows, LAMBDA r : r.token_address = address)
  IN  IF own = <<>> THEN Null ELSE Num(own[1].overall_safety_score)

\* lines 16-23: the memecoins, each with its safety_score
recentMemecoins(tokenRows, safetyRows) ==
  LET list == newestFirst({t \in tokenRows : t.is_memecoin = 1})
  IN  [i \in 1..Len(list) |->
         [token |-> list[i],
          safety_score |-> storedSafetyScore(safetyRows, list[i].address)]]

\* lines 47-54: the aggregates over the rows of the token of the last 7 days
socialSignalsOf(rows, address, now) ==
  LET own == SelectSeq(rows, LAMBDA r :
               r.token_address = address /\ r.timestamp > now - 4 * 7)
  IN  IF own = <<>>
        THEN [avg_sentiment |-> Null, total_mentions |-> Null,
              total_engagement |-> Null]
        ELSE [avg_sentiment |->
                Num(Q(sumOfSeq([i \in 1..Len(own) |-> own[i].sentiment_score]),
                      2 * Len(own))),
              total_mentions |->
                Num(sumOfSeq([i \in 1..Len(own) |-> own[i].mentions])),
              total_engagement |->
                Num(sumOfSeq([i \in 1..Len(own) |-> own[i].engagement_score]))]

\* ORDER BY correlation_score DESC
RECURSIVE sortByCorrelationScore(_)
sortByCorrelationScore(rows) ==
  IF rows = <<>> THEN <<>>
  ELSE LET rest == sortByCorrelationScore(Tail(rows))
           k == Cardinality({i \in 1..Len(rest) :
                  ~QLeq(rest[i].correlation_score,
                        Head(rows).correlation_score)})
       IN  SubSeq(rest, 1, k) \o <<Head(rows)>> \o SubSeq(rest, k + 1, Len(rest))

\* lines 59-65: the five highest correlations stored for the token
memeCorrelationsOf(rows, address) ==
  slice(sortByCorrelationScore(
          SelectSeq(rows, LAMBDA r : r.token_address = address)), 5)

\* lines 31-94, one pass of the loop for a token the database answers for:
\* the processed token (marketData and memeCorrelations, copied through,
\* left out)
processedToken(entry, facts, marketData, signalRows, correlationRows, now) ==
  LET token == entry.token
      score == IF entry.safety_score = Null \/ entry.safety_score = Num(0)
                 THEN analyzeTokenSafety(token.address, facts).safetyScore
                        \div 5
                 ELSE entry.safety_score.v
      noveltyFactor == calculateNoveltyFactor(noveltyDate(token), now)
      marketFactor == calculateMarketFactor(marketData)
      riskAdjustedScore ==
        calculateRiskAdjustedScore(score, noveltyFactor, marketFactor)
      socialScore ==
        calculateSocialScore(socialSignalsOf(signalRows, token.address, now))
      memeScore ==
        calculateMemeScore(memeCorrelationsOf(correlationRows, token.address))
      opportunityScore ==
        opportunityScoreOf(riskAdjustedScore, socialScore, memeScore)
  IN  [address |-> token.address,
       name |-> token.name,
       symbol |-> token.symbol,
       safetyScore |-> score,
       opportunityScore |->
         (opportunityScore.n * OpportunityUnit) \div opportunityScore.d,
       components |-> [noveltyFactor |-> noveltyFactor,
                       marketFactor |-> marketFactor,
                       riskAdjustedScore |-> riskAdjustedScore,
                       socialScore |-> socialScore,
                       memeScore |-> memeScore]]

\* lines 27-97: the loop; a token in fails has a query rejected by the
\* database, which is logged, and is skipped
RECURSIVE processTokens(_, _, _, _, _, _, _)
processTokens(entries, fails, facts, markets, signalRows, correlationRows, now) ==
  IF entries = <<>> THEN [processed |-> <<>>, logged |-> <<>>]
  ELSE LET entry == Head(entries)
           rest == processTokens(Tail(entries), fails, facts, markets,
                                 signalRows, correlationRows, now)
       IN  IF entry.token.address \in fails
             THEN [processed |-> rest.processed,
                   logged |-> <<"Error processing token "
                                  \o entry.token.address
                                  \o ": database error">> \o rest.logged]
             ELSE [processed |->
                     <<processedToken(entry, facts[entry.token.address],
                                      markets[entry.token.address],
                                      signalRows, correlationRows, now)>>
                       \o rest.processed,
                   logged |-> rest.logged]

\* lines 392-438: the texts chosen by the risk tolerance, told by the first
\* words of timeHorizon (the like for the other texts; keyRisks is fixed)
generateStrategy(allocation, tolerance) ==
  [timeHorizon |->
     CASE tolerance = "conservative" -> "Medium-term"
       [] tolerance = "moderate" -> "Mixed"
       [] tolerance = "aggressive" -> "Shorter-term"
       [] tolerance = "very_aggressive" -> "Very short-term"
       [] OTHER -> ""]

(***************************************************************************)
(* The stores and the providers of getPortfolioStrategy.                   *)
(***************************************************************************)
\* a row of table tokens with its creation_date (a time, or Null)
DatedTokenRow(a, memecoin, created) ==
  [address |-> a, name |-> "name of " \o a, symbol |-> "symbol of " \o a,
   is_memecoin |-> memecoin, creation_date |-> created]

\* mintA, a memecoin created today or 7 days ago, alone or with an older
\* mintB, which may be no memecoin or have no creation_date
StrategyTokenStores ==
  {{DatedTokenRow("mintA", 1, [time |-> Today - ageA])} \cup others :
     ageA \in {0, 4 * 7},
     others \in {{},
                 {DatedTokenRow("mintB", 1, [time |-> Today - 4 * 100])},
                 {DatedTokenRow("mintB", 1, Null)},
                 {DatedTokenRow("mintB", 0, [time |-> Today - 4 * 100])}}}

\* a row of table safety_scores as runRugpullScan writes it, of which only
\* overall_safety_score is read here
SafetyRow(a, overall) ==
  [token_address |-> a, contract_score |-> 90, rugpull_risk_score |-> 0,
   holder_distribution_score |-> 50, liquidity_score |-> 80,
   overall_safety_score |-> overall]

StrategySafetyStores ==
  {<<>>,
   <<SafetyRow("mintA", 80), SafetyRow("mintB", 0)>>,
   <<SafetyRow("mintA", 45), SafetyRow("mintB", 90)>>}

\* the lookup fails (safetyScore 0), or the mint has a mint authority, a top
\* holder with 60 % and 50 holders (safetyScore 100 - 20 - 10 - 10 = 60)
StrategyChainFacts ==
  {[lookupFails |-> TRUE],
   [lookupFails |-> FALSE,
    metrics |-> [mintAuthorityExists |-> TRUE, freezeAuthorityExists |-> FALSE,
                 topHolderPercentage |-> 60, holderCount |-> 50,
                 hasLiquidity |-> TRUE]]}

\* getTokenLiquidity: the all-zero record, or the provider's figures (price
\* and marketCap are not read)
StrategyMarkets ==
  {[volume24h |-> 0, priceChange24h |-> 0, liquidity |-> 0],
   [volume24h |-> 999, priceChange24h |-> 50, liquidity |-> 999999],
   [volume24h |-> 999999, priceChange24h |-> -20, liquidity |-> 0]}

SignalRow(a, mentions, sentiment, engagement, time) ==
  [token_address |-> a, platform |-> "twitter", mentions |-> mentions,
   sentiment_score |-> sentiment, engagement_score |-> engagement,
   timestamp |-> time]

StrategySignalStores ==
  {<<>>,
   <<SignalRow("mintA", 9, 2, 99, Today - 4)>>,
   <<SignalRow("mintA", 9, 2, 99, Today - 4 * 10)>>,
   <<SignalRow("mintA", 0, 0, 0, Today),
     SignalRow("mintB", 99, -1, 9999, Today - 4)>>}

CorrelationRow(a, meme, score) ==
  [token_address |-> a, meme_name |-> meme, correlation_score |-> score]

StrategyCorrelationStores ==
  {<<>>,
   <<CorrelationRow("mintA", <<"D", "o", "g", "e">>, Q(4, 5))>>,
   <<CorrelationRow("mintA", <<"D", "o", "g", "e">>, Q(3, 10)),
     CorrelationRow("mintB", <<"g", "o", " ", "c", "a", "t">>, Q(1, 1))>>}

InitStrategy ==
  /\ tokens \in StrategyTokenStores
  /\ safety_scores \in StrategySafetyStores
  /\ social_signals \in StrategySignalStores
  /\ meme_correlations \in StrategyCorrelationStores
  /\ chain \in {f \in [Addresses -> StrategyChainFacts] :
                  f["mintA"].lookupFails => f["mintB"].lookupFails}
  /\ market \in {f \in [Addresses -> StrategyMarkets] :
                   f["mintA"].volume24h < f["mintB"].volume24h}
  /\ failing \in {{}, {"mintA"}, {"mintB"}}
  /\ riskTolerance \in {"conservative", "very_aggressive"}
  /\ investmentSize = MaxInvestmentCents
  /\ existingPortfolio \in {<<>>, <<[address |-> "mintA"]>>}
  /\ processedTokens = <<>>
  /\ portfolio = NotCalled
  /\ log = <<>>
  /\ strategyResult = NotCalled
  /\ analysisResult = NotCalled
  /\ whale_movements = <<>> /\ ledger = <<>>
  /\ whaleRequest = NotCalled /\ whaleResult = NotCalled
  /\ ServiceUnused
  /\ scanAnalysis = NotCalled /\ scanResult = NotCalled
  /\ social = NotCalled /\ hypeResult = NotCalled
  /\ ScoreUnused
  /\ MemeUnused

\* handler({parameters: {riskTolerance, investmentSize, existingPortfolio}}),
\* lines 8-125; queryFails: the first query is rejected by the database
GetPortfolioStrategy(queryFails) ==
  /\ strategyResult = NotCalled
  /\ IF queryFails
       THEN /\ strategyResult' =
                 Threw("Failed to generate portfolio strategy: database error")
            /\ log' = Append(log, "Error in getPortfolioStrategy: database error")
            /\ UNCHANGED <<processedTokens, portfolio>>
       ELSE LET loop == processTokens(recentMemecoins(tokens, safety_scores),
                                      failing, chain, market, social_signals,
                                      meme_correlations, Today)
                sorted == sortByOpportunity(loop.processed)
                allocation == generatePortfolioAllocation(
                                sorted, riskTolerance, investmentSize,
                                existingPortfolio)
            IN  /\ processedTokens' = sorted
                /\ portfolio' = Returned(allocation)
                /\ log' = log \o loop.logged
                /\ strategyResult' =
                     Returned([riskTolerance |-> riskTolerance,
                               investmentSize |-> investmentSize,
                               strategy |-> generateStrategy(allocation,
                                                             riskTolerance),
                               portfolio |-> allocation])
  /\ UNCHANGED <<riskTolerance, investmentSize, existingPortfolio, tokens,
                 safety_scores, social_signals, meme_correlations, chain,
                 market, failing, scanAnalysis, scanResult, social, hypeResult,
                 analysisResult, whale_movements, ledger, whaleRequest,
                 whaleResult, scoreVars, memeVars, serviceVars>>

NextStrategy == \E queryFails \in BOOLEAN : GetPortfolioStrategy(queryFails)

SpecStrategy == InitStrategy /\ [][NextStrategy]_vars

(***************************************************************************)
(* getPortfolioStrategy pass by pass.  The handler awaits a provider or    *)
(* the database in every pass of its loop (lines 32, 37, 47, 59), and the  *)
(* server takes other requests meanwhile: a getHypeScore call can run      *)
(* between two passes.                                                     *)
(***************************************************************************)
\* what searchTwitterMentions gives a getHypeScore call that runs meanwhile
TwitterDataMeanwhile ==
  {ZeroMentions, [count |-> 9, sentiment |-> 2, engagement |-> 99]}

InitInterleaved ==
  /\ tokens \in StrategyTokenStores
  /\ safety_scores \in StrategySafetyStores
  /\ social_signals \in StrategySignalStores
  /\ meme_correlations \in StrategyCorrelationStores
  /\ chain = [a \in Addresses |-> [lookupFails |-> TRUE]]
  /\ market = [a \in Addresses |->
                 [volume24h |-> 999, priceChange24h |-> 50,
                  liquidity |-> 999999]]
  /\ failing \in {{}, {"mintB"}}
  /\ riskTolerance = "very_aggressive"
  /\ investmentSize = MaxInvestmentCents
  /\ existingPortfolio = <<>>
  /\ processedTokens = <<>>
  /\ portfolio = NotCalled
  /\ log = <<>>
  /\ strategyResult = NotCalled
  /\ strategyLoop = NotCalled
  /\ recentTransactions = NotCalled /\ discoveryResult = NotCalled
  /\ analysisResult = NotCalled
  /\ whale_movements = <<>> /\ ledger = <<>>
  /\ whaleRequest = NotCalled /\ whaleResult = NotCalled
  /\ providers = NotCalled /\ server = NotCalled
  /\ request = NotCalled /\ response = NotCalled
  /\ scanAnalysis = NotCalled /\ scanResult = NotCalled
  /\ social = NotCalled /\ hypeResult = NotCalled
  /\ ScoreUnused
  /\ MemeUnused

\* lines 8-27: the call up to its loop; atStart keeps the two tables as the
\* call found them
StartStrategy ==
  /\ strategyLoop = NotCalled
  /\ strategyLoop' =
       [remaining |-> recentMemecoins(tokens, safety_scores),
        processed |-> <<>>,
        atStart |-> [social_signals |-> social_signals,
                     meme_correlations |-> meme_correlations]]
  /\ UNCHANGED <<providers, server, request, response, recentTransactions,
                 discoveryResult, scoreVars, storeVars, scanVars, hypeVars,
                 portfolioVars, memeVars, batchVars>>

\* lines 29-97: one pass of the loop, with the rows the tables hold now
ProcessNextToken ==
  /\ strategyLoop # NotCalled
  /\ strategyLoop.remaining # <<>>
  /\ LET entry == Head(strategyLoop.remaining)
         address == entry.token.address
     IN  IF address \in failing
           THEN /\ strategyLoop' =
                     [strategyLoop EXCEPT !.remaining = Tail(@)]
                /\ log' = Append(log, "Error processing token " \o address
                                        \o ": database error")
           ELSE /\ strategyLoop' =
                     [strategyLoop EXCEPT
                        !.remaining = Tail(@),
                        !.processed =
                          Append(@, processedToken(entry, chain[address],
                                                   market[address],
                                                   social_signals,
                                                   meme_correlations, Today))]
                /\ UNCHANGED log
  /\ UNCHANGED <<meme_correlations, failing, strategyResult, analysisResult,
                 whale_movements, ledger, whaleRequest, whaleResult,
                 providers, server, request, response, recentTransactions,
                 discoveryResult, scoreVars, storeVars, scanVars, hypeVars,
                 portfolioVars, memeVars>>

\* lines 99-121: the sort, the allocation and the result
FinishStrategy ==
  /\ strategyLoop # NotCalled
  /\ strategyLoop.remaining = <<>>
  /\ strategyResult = NotCalled
  /\ LET sorted == sortByOpportunity(strategyLoop.processed)
         allocation == generatePortfolioAllocation(
                         sorted, riskTolerance, investmentSize,
                         existingPortfolio)
     IN  /\ processedTokens' = sorted
         /\ portfolio' = Returned(allocation)
         /\ strategyResult' =
              Returned([riskTolerance |-> riskTolerance,
                        investmentSize |-> investmentSize,
                        strategy |-> generateStrategy(allocation,
                                                      riskTolerance),
                        portfolio |-> allocation])
  /\ UNCHANGED <<riskTolerance, investmentSize, existingPortfolio,
                 meme_correlations, failing, log, analysisResult,
                 whale_movements, ledger, whaleRequest, whaleResult,
                 serviceVars, scoreVars, storeVars, scanVars, hypeVars,
                 memeVars>>

\* handler of functions/getHypeScore.js run from its start to its end
\* between two passes, searchTwitterMentions giving twitterData, the crawl
\* nothing and getTokenLiquidity what market holds for the address
GetHypeScoreMeanwhile(tokenAddress, twitterData) ==
  /\ Len(social_signals) <= MaxSignalRows
  /\ IF tokenAt(tokenAddress) = {}
       THEN /\ hypeResult' =
                 Threw("Failed to calculate hype score: Token not found: "
                         \o tokenAddress)
            /\ UNCHANGED <<social_signals, social>>
       ELSE LET tokenInfo == CHOOSE t \in tokenAt(tokenAddress) : TRUE
                platformMentions ==
                  crawlForTokenMentions([fails |-> TRUE],
                                        [count |-> 0, sentiment |-> 1])
                report == hypeScoreReport(tokenInfo, twitterData,
                                          platformMentions,
                                          market[tokenAddress], Today)
            IN  /\ social' = [twitterData |-> twitterData,
                              platformMentions |-> platformMentions]
                /\ social_signals' = Append(social_signals, report.row)
                /\ hypeResult' = Returned(report.result)
  /\ UNCHANGED <<market, serviceVars, scoreVars, storeVars, scanVars,
                 portfolioVars, memeVars, batchVars>>

NextInterleaved ==
  \/ StartStrategy
  \/ ProcessNextToken
  \/ FinishStrategy
  \/ \E tokenAddress \in Addresses, twitterData \in TwitterDataMeanwhile :
       GetHypeScoreMeanwhile(tokenAddress, twitterData)

SpecInterleaved == InitInterleaved /\ [][NextInterleaved]_vars

(***************************************************************************)
(* functions/scanNewMemecoins.js                                           *)
(*                                                                         *)
(* recentTransactions is what getSignaturesForAddress and                  *)
(* getParsedTransaction report: for each signature, whether the            *)
(* transaction can be read and the unique account addresses taken from its *)
(* instructions (none when it creates no mint).  chain gives, for every    *)
(* address, whether getTokenMetadata fails and what isMemetoken says of    *)
(* the metadata; failing, the addresses whose INSERT the database rejects. *)
(***************************************************************************)
\* INSERT OR IGNORE INTO tokens, lines 109-125: a row with the address of
\* an existing row is dropped
insertOrIgnore(rows, row) ==
  IF \E t \in rows : t.address = row.address THEN rows ELSE rows \cup {row}

\* lines 79-131: one address of uniqueAddresses; scan is the state of the
\* loop: existingTokens, newTokens, the rows of tokens and what was logged
scanAddress(scan, address, metadata, fails) ==
  IF address \in scan.existingTokens THEN scan
  ELSE IF metadata.fails
    THEN [scan EXCEPT !.logged =
            Append(@, "Error processing potential token " \o address
                        \o ": Failed to get token metadata")]
  ELSE IF ~metadata.memetoken THEN scan
  ELSE IF address \in fails
    THEN [scan EXCEPT
            !.newTokens = Append(@, address),
            !.logged = Append(@, "Error processing potential token "
                                   \o address \o ": database error")]
  ELSE [scan EXCEPT
          !.newTokens = Append(@, address),
          !.rows = insertOrIgnore(@, TokenRow(address)),
          !.existingTokens = @ \cup {address}]

RECURSIVE scanAddresses(_, _, _, _)
scanAddresses(scan, addresses, metadataOf, fails) ==
  IF addresses = <<>> THEN scan
  ELSE scanAddresses(scanAddress(scan, Head(addresses),
                                 metadataOf[Head(addresses)], fails),
                     Tail(addresses), metadataOf, fails)

\* lines 32-136: the loop over the signatures
RECURSIVE scanTransactions(_, _, _, _)
scanTransactions(scan, transactions, metadataOf, fails) ==
  IF transactions = <<>> THEN scan
  ELSE LET tx == Head(transactions)
           next ==
             IF tx.fails
               THEN [scan EXCEPT !.logged =
                       Append(@, "Error processing transaction "
                                   \o tx.signature)]
               ELSE scanAddresses(scan, tx.addresses, metadataOf, fails)
       IN  scanTransactions(next, Tail(transactions), metadataOf, fails)

Transaction(signature, fails, addresses) ==
  [signature |-> signature, fails |-> fails, addresses |-> addresses]

MintLists == {<<>>, <<"mintA">>, <<"mintA", "mintB">>}

RecentTransactionLists ==
  {<<>>}
  \cup {<<Transaction("sig1", FALSE, a)>> : a \in MintLists}
  \cup {<<Transaction("sig1", f, a), Transaction("sig2", FALSE, b)>> :
          f \in BOOLEAN, a \in MintLists, b \in MintLists}

TokenMetadata ==
  {[fails |-> TRUE], [fails |-> FALSE, memetoken |-> TRUE],
   [fails |-> FALSE, memetoken |-> FALSE]}

\* the stores of memecoins, and one where mintA is stored as no memecoin
DiscoveryTokenStores ==
  TokenStores \cup {{[TokenRow("mintA") EXCEPT !.is_memecoin = 0]}}

InitDiscovery ==
  /\ tokens \in DiscoveryTokenStores
  /\ recentTransactions \in RecentTransactionLists
  /\ chain \in [Addresses -> TokenMetadata]
  /\ failing \in SUBSET Addresses
  /\ discoveryResult = NotCalled
  /\ log = <<>>
  /\ safety_scores = <<>>
  /\ scanAnalysis = NotCalled /\ scanResult = NotCalled
  /\ meme_correlations = <<>> /\ strategyResult = NotCalled
  /\ analysisResult = NotCalled
  /\ whale_movements = <<>> /\ ledger = <<>>
  /\ whaleRequest = NotCalled /\ whaleResult = NotCalled
  /\ providers = NotCalled /\ server = NotCalled
  /\ request = NotCalled /\ response = NotCalled
  /\ strategyLoop = NotCalled
  /\ ScoreUnused
  /\ HypeUnused
  /\ PortfolioUnused
  /\ MemeUnused

\* handler({parameters}), lines 9-148; queryFails: the SELECT of line 28 is
\* rejected by the database
ScanNewMemecoins(queryFails) ==
  /\ discoveryResult = NotCalled
  /\ IF queryFails
       THEN /\ discoveryResult' =
                 Threw("Failed to scan for new memecoins: database error")
            /\ log' = Append(log, "Error in scanNewMemecoins: database error")
            /\ UNCHANGED tokens
       ELSE LET scan ==
                  scanTransactions(
                    [existingTokens |->
                       {t.address : t \in {r \in tokens : r.is_memecoin = 1}},
                     newTokens |-> <<>>,
                     rows |-> tokens,
                     logged |-> <<>>],
                    recentTransactions, chain, failing)
            IN  /\ tokens' = scan.rows
                /\ log' = log \o scan.logged
                /\ discoveryResult' =
                     Returned([scannedTransactions |-> Len(recentTransactions),
                               newMemecoinsFound |-> Len(scan.newTokens),
                               latestMemecoins |-> slice(scan.newTokens, 10)])
  /\ UNCHANGED <<recentTransactions, chain, failing, safety_scores,
                 scanAnalysis, scanResult, meme_correlations, strategyResult,
                 analysisResult, whale_movements, ledger, whaleRequest,
                 whaleResult, providers, server, request, response,
                 strategyLoop, scoreVars, hypeVars, portfolioVars, memeVars>>

NextDiscovery == \E queryFails \in BOOLEAN : ScanNewMemecoins(queryFails)

SpecDiscovery == InitDiscovery /\ [][NextDiscovery]_vars

(***************************************************************************)
(* functions/analyzeMemeCorrelation.js                                     *)
(*                                                                         *)
(* A text column of a row of tokens is Null or [text |-> the string].      *)
(* trendingMemes is what trackTrendingMemes returns, failing the tokens    *)
(* for which the database rejects an INSERT.                               *)
(***************************************************************************)
\* lines 135-155
generateTokenThemesFromMeme(memeName) ==
  LET memeWords == splitWords(memeName, <<>>)
  IN  <<memeName \o <<" ", "C", "o", "i", "n">>,
        memeName \o <<" ", "T", "o", "k", "e", "n">>>>
      \o (IF Len(memeWords) > 1
            THEN <<[i \in 1..Len(memeWords) |->
                      toUpperCase(<<memeWords[i][1]>>)[1]]>>
            ELSE <<>>)
      \o (IF Len(memeWords) > 0
            THEN <<toUpperCase(memeWords[1]) \o <<" ", "C", "o", "i", "n">>>>
            ELSE <<>>)

\* lines 20-36: the tokens to analyze; thirtyDaysAgo is now less 30 days,
\* and a creation_date that is NULL is not after it
tokensToAnalyze(tokenRows, tokenAddress, now) ==
  IF tokenAddress # Undefined
    THEN newestFirst({t \in tokenRows :
                        t.address = tokenAddress /\ t.is_memecoin = 1})
    ELSE slice(newestFirst({t \in tokenRows :
                              /\ t.is_memecoin = 1
                              /\ t.creation_date # Null
                              /\ t.creation_date.time > now - 4 * 30}), 50)

strongRows_aboveThreshold(token, found) ==
  LET strong == SelectSeq(found, LAMBDA c : ~QLeq(c.correlation, Q(3, 10)))
  IN  [k \in 1..Len(strong) |->
         [token_address |-> token.address, meme_name |-> strong[k].meme,
          correlation_score |-> strong[k].correlation]]

\* lines 61-75: the rows written for a token, those of the correlations from
\* 0.3
strongRows(token, found) ==
  LET strong == SelectSeq(found, LAMBDA c : QLeq(Q(3, 10), c.correlation))
  IN  [k \in 1..Len(strong) |->
         CorrelationRow(token.address, strong[k].meme, strong[k].correlation)]

\* lines 52-96: the loop over the tokens, giving the rows written, the
\* entries of results.tokens and results.predictedOpportunities, and the
\* error thrown, if one is: a name or symbol that is null has no
\* toLowerCase, and a rejected INSERT rejects the await
RECURSIVE analyzeTokens(_, _, _)
analyzeTokens(list, memes, fails) ==
  IF list = <<>>
    THEN [written |-> <<>>, analyzed |-> <<>>, predicted |-> <<>>,
          thrown |-> Null]
    ELSE
      LET token == Head(list)
      IN  IF token.name = Null \/ token.symbol = Null
            THEN [written |-> <<>>, analyzed |-> <<>>, predicted |-> <<>>,
                  thrown |-> [message |-> "Cannot read properties of null (reading 'toLowerCase')"]]
            ELSE
              LET found == calculateMemeCorrelation(token.name.text,
                                                    token.symbol.text, memes)
                  rows == strongRows(token, found)
                  strongCorrelations ==
                    SelectSeq(found, LAMBDA c : QLeq(Q(6, 10), c.correlation))
                  rest == analyzeTokens(Tail(list), memes, fails)
              IN  IF rows # <<>> /\ token.address \in fails
                    THEN [written |-> <<>>, analyzed |-> <<>>,
                          predicted |-> <<>>,
                          thrown |-> [message |-> "database error"]]
                    ELSE [written |-> rows \o rest.written,
                          analyzed |->
                            <<[address |-> token.address,
                               name |-> token.name.text,
                               symbol |-> token.symbol.text,
                               correlations |-> slice(found, 5)]>>
                              \o rest.analyzed,
                          predicted |->
                            (IF Len(strongCorrelations) > 0
                               THEN <<[tokenAddress |-> token.address,
                                       name |-> token.name.text,
                                       symbol |-> token.symbol.text,
                                       trendingMemeMatches |->
                                         strongCorrelations]>>
                               ELSE <<>>) \o rest.predicted,
                          thrown |-> rest.thrown]

missingMemeOpportunitiesOf_caseSensitive(memes, correlationRows) ==
  LET allMemeSet == {correlationRows[k].meme_name :
                       k \in 1..Len(correlationRows)}
      missing == SelectSeq(memes, LAMBDA meme : meme.name \notin allMemeSet)
  IN  slice([k \in 1..Len(missing) |->
               [memeName |-> missing[k].name,
                source |-> missing[k].source,
                potentialTokenThemes |->
                  generateTokenThemesFromMeme(missing[k].name)]], 5)

\* lines 98-119, with the rows of meme_correlations at that moment
missingMemeOpportunitiesOf(memes, correlationRows) ==
  LET allMemeSet == {toLowerCase(correlationRows[k].meme_name) :
                       k \in 1..Len(correlationRows)}
      missing == SelectSeq(memes, LAMBDA meme :
                   toLowerCase(meme.name) \notin allMemeSet)
  IN  slice([k \in 1..Len(missing) |->
               [memeName |-> missing[k].name,
                source |-> missing[k].source,
                potentialTokenThemes |->
                  generateTokenThemesFromMeme(missing[k].name)]], 5)

(***************************************************************************)
(* The stores and the feed of analyzeMemeCorrelation.                      *)
(***************************************************************************)
Text(str) == [text |-> str]

NamedTokenRow(a, name, symbol, memecoin, created) ==
  [address |-> a, name |-> name, symbol |-> symbol, is_memecoin |-> memecoin,
   creation_date |-> created]

\* mintA, a memecoin named "Doge Moon" or "zz" with symbol "DOGE" or "qq",
\* created 1 or 10 days ago, alone or with mintB, created 2 days ago, which
\* may have no name, no symbol, no creation_date, be older than 30 days or
\* be no memecoin
AnalysisTokenStores ==
  {{NamedTokenRow("mintA", Text(name), Text(symbol), 1,
                  [time |-> Today - ageA])} \cup others :
     name \in {<<"D", "o", "g", "e", " ", "M", "o", "o", "n">>, <<"z", "z">>},
     symbol \in {<<"D", "O", "G", "E">>, <<"q", "q">>},
     ageA \in {4, 4 * 10},
     others \in
       {{}} \cup
       {{NamedTokenRow("mintB", row[1], row[2], row[3], row[4])} :
          row \in
            {<<Text(<<"g", "o", "-", "g", "o", " ", "c", "a", "t">>),
               Text(<<"q", "q">>), 1, [time |-> Today - 4 * 2]>>,
             <<Null, Text(<<"q", "q">>), 1, [time |-> Today - 4 * 2]>>,
             <<Text(<<"z", "z">>), Null, 1, [time |-> Today - 4 * 2]>>,
             <<Text(<<"z", "z">>), Text(<<"q", "q">>), 1, Null>>,
             <<Text(<<"z", "z">>), Text(<<"q", "q">>), 1,
               [time |-> Today - 4 * 31]>>,
             <<Text(<<"z", "z">>), Text(<<"q", "q">>), 0,
               [time |-> Today - 4 * 2]>>}}}

Meme(name, source) == [name |-> name, source |-> source]

\* what trackTrendingMemes returns: never an empty list, no name twice
AnalysisFeeds ==
  LET Doge == Meme(<<"D", "o", "g", "e">>, "popular culture")
      doge == Meme(<<"d", "o", "g", "e">>, "reddit")
      MoonDoge ==
        Meme(<<"M", "o", "o", "n", " ", "d", "o", "g", "e", "!">>, "reddit")
      efghij ==
        Meme(<<"e", " ", "f", " ", "g", " ", "h", " ", "i", " ", "j">>,
             "reddit")
      efghi ==
        Meme(<<"e", " ", "f", " ", "g", " ", "h", " ", "i">>,
             "crypto culture")
      goCat == Meme(<<"g", "o", " ", "c", "a", "t">>, "reddit")
      DogeMoon ==
        Meme(<<"D", "o", "g", "e", "_", "m", "o", "o", "n">>, "reddit")
      dogeGoCat ==
        Meme(<<"d", "o", "g", "e", " ", "g", "o", " ", "c", "a", "t">>,
             "reddit")
  IN  {<<efghij, Doge, efghi, doge, MoonDoge, goCat, DogeMoon, dogeGoCat>>,
       <<DogeMoon, goCat, MoonDoge, doge, efghi, Doge, efghij>>,
       <<goCat, dogeGoCat, Doge>>,
       <<efghij>>}

\* meme_correlations before the call: empty, or with a row of an earlier
\* call, whose meme name was then spelt "DOGE" or "go cat"
AnalysisCorrelationStores ==
  {<<>>,
   <<CorrelationRow("mintA", <<"D", "O", "G", "E">>, Q(1, 1))>>,
   <<CorrelationRow("mintB", <<"g", "o", " ", "c", "a", "t">>, Q(1, 2))>>}

InitAnalysis ==
  /\ tokens \in AnalysisTokenStores
  /\ trendingMemes \in AnalysisFeeds
  /\ meme_correlations \in AnalysisCorrelationStores
  /\ failing \in {{}, {"mintA"}, {"mintB"}}
  /\ log = <<>>
  /\ analysisResult = NotCalled
  /\ strategyResult = NotCalled
  /\ whale_movements = <<>> /\ ledger = <<>>
  /\ whaleRequest = NotCalled /\ whaleResult = NotCalled
  /\ ServiceUnused
  /\ safety_scores = <<>>
  /\ tokenName = NotCalled /\ tokenSymbol = NotCalled
  /\ correlations = NotCalled
  /\ chain = NotCalled /\ scanAnalysis = NotCalled /\ scanResult = NotCalled
  /\ ScoreUnused
  /\ HypeUnused
  /\ PortfolioUnused

\* handler({parameters: {tokenAddress, includeTrendingReport}}), lines 7-127
AnalyzeMemeCorrelation(tokenAddress, includeTrendingReport) ==
  /\ analysisResult = NotCalled
  /\ LET list == tokensToAnalyze(tokens, tokenAddress, Today)
         loop == analyzeTokens(list, trendingMemes, failing)
         stored == meme_correlations \o loop.written
         message ==
           IF list = <<>>
             THEN IF tokenAddress # Undefined
                    THEN "Token not found: " \o tokenAddress
                    ELSE "No tokens found to analyze"
             ELSE loop.thrown.message
     IN  /\ meme_correlations' = stored
         /\ IF list = <<>> \/ loop.thrown # Null
              THEN /\ log' = Append(log, "Error in analyzeMemeCorrelation: "
                                           \o message)
                   /\ analysisResult' =
                        Threw("Failed to analyze meme correlation: "
                                \o message)
              ELSE /\ log' = log
                   /\ analysisResult' =
                        Returned(
                          [tokens |-> loop.analyzed,
                           trendingMemes |->
                             IF includeTrendingReport
                               THEN slice(trendingMemes, 10)
                               ELSE Undefined,
                           predictedOpportunities |-> loop.predicted,
                           missingMemeOpportunities |->
                             missingMemeOpportunitiesOf(trendingMemes,
                                                        stored)])
  /\ UNCHANGED <<tokens, safety_scores, trendingMemes, failing,
                 strategyResult, whale_movements, ledger, whaleRequest,
                 whaleResult, tokenName, tokenSymbol, correlations, scoreVars, scanVars,
                 hypeVars, portfolioVars, serviceVars>>

NextAnalysis ==
  \E tokenAddress \in {Undefined} \cup Addresses,
     includeTrendingReport \in BOOLEAN :
    AnalyzeMemeCorrelation(tokenAddress, includeTrendingReport)

SpecAnalysis == InitAnalysis /\ [][NextAnalysis]_vars

(***************************************************************************)
(* functions/trackWhaleMovements.js                                        *)
(*                                                                         *)
(* ledger gives, for a mint, what getSignaturesForAddress answers: a       *)
(* failure, or the list of its signatures, each with what                  *)
(* getParsedTransaction answers for it: a failure, no transaction (Null),  *)
(* or the transaction with its block time, its slot and the changes of its *)
(* token balances.  A change names the mint, the owner of the account, the *)
(* uiAmount before and after, and what isWhaleAccount answers for the      *)
(* owner (false when its own lookups fail, utils/tokenUtils.js lines       *)
(* 142-162).                                                               *)
(***************************************************************************)
NoMovements == [movements |-> <<>>, rows |-> <<>>, logged |-> <<>>]

\* lines 63-103: the transfers of the token in a transaction, those of at
\* least minAmount to or from a whale
tokenTransfersOf(token, sig, minAmount) ==
  LET relevant ==
        SelectSeq(sig.tx.changes, LAMBDA c :
          /\ c.mint = token.address
          /\ Abs(c.after - c.before) >= minAmount
          /\ c.whale)
  IN  [k \in 1..Len(relevant) |->
         [tokenAddress |-> token.address,
          tokenSymbol |-> token.symbol,
          tokenName |-> token.name,
          whaleAddress |-> relevant[k].owner,
          transactionHash |-> sig.signature,
          blockTime |-> sig.tx.blockTime,
          slot |-> sig.tx.slot,
          balanceChange |-> relevant[k].after - relevant[k].before,
          balanceChangeUSD |-> 0]]

\* lines 109-121: the row of whale_movements of a transfer
whaleMovementRow(transfer) ==
  [token_address |-> transfer.tokenAddress,
   wallet_address |-> transfer.whaleAddress,
   transaction_signature |-> transfer.transactionHash,
   amount |-> Abs(transfer.balanceChange),
   direction |-> IF transfer.balanceChange > 0 THEN "buy" ELSE "sell"]

trackSignature_pushesBeforeWrite(token, sig, minAmount, fails) ==
  IF sig.fetchFails
    THEN [movements |-> <<>>, rows |-> <<>>,
          logged |-> <<"Error processing transaction " \o sig.signature
                         \o ": provider error">>]
  ELSE IF sig.tx = Null THEN NoMovements
  ELSE LET tokenTransfers == tokenTransfersOf(token, sig, minAmount)
       IN  IF tokenTransfers # <<>> /\ token.address \in fails
             THEN [movements |-> <<tokenTransfers[1]>>, rows |-> <<>>,
                   logged |-> <<"Error processing transaction "
                                  \o sig.signature \o ": database error">>]
             ELSE [movements |-> tokenTransfers,
                   rows |-> [k \in 1..Len(tokenTransfers) |->
                               [token_address |-> token.address,
                                wallet_address |-> tokenTransfers[k].whaleAddress,
                                transaction_signature |-> sig.signature,
                                amount |-> Abs(tokenTransfers[k].balanceChange),
                                direction |->
                                  IF tokenTransfers[k].balanceChange > 0
                                    THEN "buy" ELSE "sell"]],
                   logged |-> <<>>]

\* lines 52-128: one signature.  A failure of getParsedTransaction, or the
\* INSERT of the first transfer rejected by the database (the token is in
\* fails), is caught at line 126, logged, and ends this transaction only.
trackSignature(token, sig, minAmount, fails) ==
  IF sig.fetchFails
    THEN [movements |-> <<>>, rows |-> <<>>,
          logged |-> <<"Error processing transaction " \o sig.signature
                         \o ": provider error">>]
  ELSE IF sig.tx = Null THEN NoMovements
  ELSE LET tokenTransfers == tokenTransfersOf(token, sig, minAmount)
       IN  IF tokenTransfers # <<>> /\ token.address \in fails
             THEN [movements |-> <<>>, rows |-> <<>>,
                   logged |-> <<"Error processing transaction "
                                  \o sig.signature \o ": database error">>]
             ELSE [movements |-> tokenTransfers,
                   rows |-> [k \in 1..Len(tokenTransfers) |->
                               whaleMovementRow(tokenTransfers[k])],
                   logged |-> <<>>]

\* lines 51-129: the loop over the signatures of a token
RECURSIVE trackSignatures(_, _, _, _)
trackSignatures(token, signatures, minAmount, fails) ==
  IF signatures = <<>> THEN NoMovements
  ELSE LET first == trackSignature(token, Head(signatures), minAmount, fails)
           rest == trackSignatures(token, Tail(signatures), minAmount, fails)
       IN  [movements |-> first.movements \o rest.movements,
            rows |-> first.rows \o rest.rows,
            logged |-> first.logged \o rest.logged]

\* lines 39-133: the loop over the tokens.  A failure of
\* getSignaturesForAddress is caught at line 130, logged, and ends this token.
RECURSIVE trackTokens(_, _, _, _)
trackTokens(list, histories, minAmount, fails) ==
  IF list = <<>> THEN NoMovements
  ELSE LET token == Head(list)
           history == histories[token.address]
           first ==
             IF history.lookupFails
               THEN [movements |-> <<>>, rows |-> <<>>,
                     logged |-> <<"Error tracking movements for token "
                                    \o token.address \o ": provider error">>]
               ELSE trackSignatures(token, history.signatures, minAmount,
                                    fails)
           rest == trackTokens(Tail(list), histories, minAmount, fails)
       IN  [movements |-> first.movements \o rest.movements,
            rows |-> first.rows \o rest.rows,
            logged |-> first.logged \o rest.logged]

\* line 136, .sort((a, b) => b.blockTime - a.blockTime): descending, stable
RECURSIVE sortByBlockTime(_)
sortByBlockTime(list) ==
  IF list = <<>> THEN <<>>
  ELSE LET rest == sortByBlockTime(Tail(list))
           k == Cardinality({i \in 1..Len(rest) :
                  rest[i].blockTime > Head(list).blockTime})
       IN  SubSeq(rest, 1, k) \o <<Head(list)>> \o SubSeq(rest, k + 1, Len(rest))

\* lines 21-28: the tokens to track
tokensToTrack(tokenRows, tokenAddress) ==
  IF tokenAddress # Undefined
    THEN newestFirst({t \in tokenRows :
                        t.address = tokenAddress /\ t.is_memecoin = 1})
    ELSE slice(newestFirst({t \in tokenRows : t.is_memecoin = 1}), 50)

(***************************************************************************)
(* The stores and the providers of the two sweeps that catch the failure   *)
(* of a token, getPortfolioStrategy and trackWhaleMovements.               *)
(***************************************************************************)
Change(mint, owner, before, after, whale) ==
  [mint |-> mint, owner |-> owner, before |-> before, after |-> after,
   whale |-> whale]

Signature(signature, fetchFails, tx) ==
  [signature |-> signature, fetchFails |-> fetchFails, tx |-> tx]

\* mintA: the lookup fails; no signature; a transaction that cannot be
\* fetched, then one where a whale buys 5000; or a transaction where a whale
\* buys 5000, a whale sells 700 and another account buys 9000, then a
\* signature without a transaction
HistoriesOfMintA ==
  {[lookupFails |-> TRUE],
   [lookupFails |-> FALSE, signatures |-> <<>>],
   [lookupFails |-> FALSE,
    signatures |->
      <<Signature("sigA1", TRUE, Null),
        Signature("sigA2", FALSE,
                  [blockTime |-> 10, slot |-> 1,
                   changes |-> <<Change("mintA", "walletW", 0, 5000, TRUE)>>])>>],
   [lookupFails |-> FALSE,
    signatures |->
      <<Signature("sigA3", FALSE,
                  [blockTime |-> 20, slot |-> 2,
                   changes |-> <<Change("mintA", "walletW", 1000, 6000, TRUE),
                                 Change("mintA", "walletS", 700, 0, TRUE),
                                 Change("mintB", "walletW", 0, 8000, TRUE),
                                 Change("mintA", "walletP", 0, 9000, FALSE)>>]),
        Signature("sigA4", FALSE, Null)>>]}

\* mintB: the lookup fails, or a whale sells 2000
HistoriesOfMintB ==
  {[lookupFails |-> TRUE],
   [lookupFails |-> FALSE,
    signatures |->
      <<Signature("sigB1", FALSE,
                  [blockTime |-> 15, slot |-> 1,
                   changes |-> <<Change("mintB", "walletW", 2000, 0, TRUE)>>])>>]}

WhaleLedgers ==
  {[a \in Addresses |-> IF a = "mintA" THEN historyA ELSE historyB] :
     historyA \in HistoriesOfMintA, historyB \in HistoriesOfMintB}

InitBatch ==
  /\ tokens \in StrategyTokenStores
  /\ safety_scores \in StrategySafetyStores
  /\ social_signals = <<>>
  /\ meme_correlations = <<>>
  /\ chain \in {f \in [Addresses -> StrategyChainFacts] :
                  f["mintA"].lookupFails = f["mintB"].lookupFails}
  /\ market \in {f \in [Addresses -> StrategyMarkets] :
                   f["mintA"].volume24h = 999 /\ f["mintB"].volume24h = 999999}
  /\ ledger \in WhaleLedgers
  /\ failing \in {{}, {"mintA"}, {"mintB"}}
  /\ riskTolerance = "moderate"
  /\ investmentSize = MaxInvestmentCents
  /\ existingPortfolio = <<>>
  /\ processedTokens = <<>>
  /\ portfolio = NotCalled
  /\ log = <<>>
  /\ strategyResult = NotCalled
  /\ analysisResult = NotCalled
  /\ whale_movements = <<>>
  /\ whaleRequest = NotCalled /\ whaleResult = NotCalled
  /\ ServiceUnused
  /\ scanAnalysis = NotCalled /\ scanResult = NotCalled
  /\ social = NotCalled /\ hypeResult = NotCalled
  /\ ScoreUnused
  /\ MemeUnused

\* handler({parameters: {tokenAddress, limit, minAmount}}), lines 9-150; a
\* limit or a minAmount of 0 stands for one left out too, which || replaces
\* alike
TrackWhaleMovements(tokenAddress, limit, minAmount) ==
  /\ whaleResult = NotCalled
  /\ whaleRequest' =
       [tokenAddress |-> tokenAddress, limit |-> limit, minAmount |-> minAmount]
  /\ LET actualLimit == IF limit = 0 THEN 10 ELSE limit
         actualMinAmount == IF minAmount = 0 THEN 1000 ELSE minAmount
         list == tokensToTrack(tokens, tokenAddress)
         loop == trackTokens(list, ledger, actualMinAmount, failing)
         allMovements == sortByBlockTime(loop.movements)
     IN  IF list = <<>>
           THEN /\ log' = Append(log, "Error in trackWhaleMovements: No tokens found to track")
                /\ whaleResult' =
                     Threw("Failed to track whale movements: No tokens found to track")
                /\ UNCHANGED whale_movements
           ELSE /\ log' = log \o loop.logged
                /\ whale_movements' = whale_movements \o loop.rows
                /\ whaleResult' =
                     Returned([movements |-> slice(allMovements, actualLimit),
                               totalFound |-> Len(allMovements),
                               trackingPeriod |-> "Last 24 hours"])
  /\ UNCHANGED <<tokens, safety_scores, social_signals, meme_correlations,
                 chain, market, ledger, failing, riskTolerance,
                 investmentSize, existingPortfolio, processedTokens,
                 portfolio, strategyResult, analysisResult, scanAnalysis,
                 scanResult, social, hypeResult, scoreVars, memeVars,
                 serviceVars>>

NextBatch ==
  \/ \E queryFails \in BOOLEAN : GetPortfolioStrategy(queryFails)
  \/ \E tokenAddress \in {Undefined, "mintB"}, limit \in {0, 1},
        minAmount \in {0, 500} :
       TrackWhaleMovements(tokenAddress, limit, minAmount)

SpecBatch == InitBatch /\ [][NextBatch]_vars

(***************************************************************************)
(* The claims.                                                             *)
(***************************************************************************)

\* C1: whatever the metrics (topHolderPercentage in 0..100, holderCount
\* >= 0), calculateSafetyScore returns a value from 0 to 100 points.
C1_SafetyScoreWithinBounds ==
  safetyScore.status = "returned" =>
    /\ safetyScore.value >= 5 * 0
    /\ safetyScore.value <= 5 * 100

\* the deductions add up to more than 100 points and the clamp acts
C1_Witness ==
  /\ safetyScore.status = "returned"
  /\ deductedScore(metrics) < 0
  /\ safetyScore.value = 0

\* C7: with the other inputs as they are, calculateSafetyScore does not
\* grow when topHolderPercentage grows from 50 on, nor when holderCount
\* shrinks from 100 down.
C7_SafetyScoreMonotone ==
  safetyScore.status = "returned" =>
    /\ \A p \in 0..100 :
         (metrics.topHolderPercentage >= 50 /\ p >= metrics.topHolderPercentage)
           => calculateSafetyScore([metrics EXCEPT !.topHolderPercentage = p])
                <= safetyScore.value
    /\ \A h \in 0..MaxHolderCount :
         (metrics.holderCount <= 100 /\ h <= metrics.holderCount)
           => calculateSafetyScore([metrics EXCEPT !.holderCount = h])
                <= safetyScore.value

\* both deductions are at work, below their caps, and nothing is clamped
C7_Witness ==
  /\ safetyScore.status = "returned"
  /\ metrics.topHolderPercentage \in 51..89
  /\ metrics.holderCount \in 1..99
  /\ safetyScore.value > 0
  /\ calculateSafetyScore([metrics EXCEPT !.topHolderPercentage = 90,
                                          !.holderCount = 0])
       < safetyScore.value

\* a scan that got as far as its report
ScanReturned == scanResult.status = "returned"

\* C4: when the on-chain lookup fails the scan raises no error and reports
\* safety score 0, risk Extreme, both authorities present, no holder and
\* no liquidity.
C4_FailedLookupReportsWorst ==
  (chain.lookupFails /\ scanAnalysis.status = "returned") =>
    /\ scanResult.status = "returned" =>
         /\ scanResult.value.safetyScore = 0
         /\ scanResult.value.riskLevel = "Extreme"
         /\ scanResult.value.onChainMetrics.mintAuthorityExists
         /\ scanResult.value.onChainMetrics.freezeAuthorityExists
         /\ scanResult.value.onChainMetrics.holderCount = 0
         /\ ~scanResult.value.onChainMetrics.hasLiquidity

\* the risk level that the documented bounds give a reported score
tierOf(points) ==
  IF points >= 80 THEN "Low"
  ELSE IF points >= 50 THEN "Medium"
  ELSE IF points >= 20 THEN "High"
  ELSE "Extreme"

\* C5: the riskLevel of a report is the tier of the safetyScore it reports:
\* Low from 80, Medium from 50, High from 20, Extreme below.
C5_RiskLevelOfReportedScore ==
  ScanReturned =>
    scanResult.value.riskLevel = tierOf(scanResult.value.safetyScore)

\* the scenario of C6
C6_Scenario ==
  [mintAuthorityExists |-> TRUE, freezeAuthorityExists |-> FALSE,
   topHolderPercentage |-> 60, holderCount |-> 200, hasLiquidity |-> TRUE]

\* C6: for mint authority present, freeze authority absent, top holder 60 %,
\* 200 holders and liquidity the contract score is 70, and with scam
\* similarity 0 the scan reports 79, Medium.
C6_ScenarioScores ==
  (ScanReturned /\ ~chain.lookupFails /\ chain.metrics = C6_Scenario) =>
    /\ scanAnalysis.value.safetyScore = 5 * 70
    /\ scanResult.value.similarityScore = 0
    /\ scanResult.value.safetyScore = 79
    /\ scanResult.value.riskLevel = "Medium"

C6_Witness ==
  /\ ScanReturned
  /\ ~chain.lookupFails
  /\ chain.metrics = C6_Scenario

\* the deduction conditions of calculateSafetyScore that metrics m triggers
triggeredDeductions(m) ==
  (IF m.mintAuthorityExists THEN {"mint authority"} ELSE {}) \cup
  (IF m.freezeAuthorityExists THEN {"freeze authority"} ELSE {}) \cup
  (IF m.topHolderPercentage > 50 THEN {"concentration"} ELSE {}) \cup
  (IF m.holderCount < 100 THEN {"holders"} ELSE {}) \cup
  (IF ~m.hasLiquidity THEN {"liquidity"} ELSE {})

\* how often w occurs in the sequence ws
occurrences(ws, w) == Cardinality({i \in 1..Len(ws) : ws[i] = w})

\* C8: the warnings of an analysis hold one entry for each deduction
\* condition the metrics trigger and none for another; the scan adds one
\* more exactly when the scam similarity is above 30.
C8_WarningPerDeduction ==
  (ScanReturned /\ ~chain.lookupFails) =>
    /\ \A w \in {"mint authority", "freeze authority", "concentration",
                 "holders", "liquidity"} :
         /\ occurrences(scanAnalysis.value.warnings, w)
              = IF w \in triggeredDeductions(chain.metrics) THEN 1 ELSE 0
         /\ occurrences(scanResult.value.warnings, w)
              = IF w \in triggeredDeductions(chain.metrics) THEN 1 ELSE 0
    /\ occurrences(scanResult.value.warnings, "scam similarity")
         = IF scanResult.value.similarityScore > 30 THEN 1 ELSE 0
    /\ Len(scanResult.value.warnings)
         = Len(scanAnalysis.value.warnings)
             + occurrences(scanResult.value.warnings, "scam similarity")

HypeReturned == hypeResult.status = "returned"

\* C2: a call of getHypeScore that returns has, for every row the tokens
\* table can hold (a row without created_at included), a hypeScore that is
\* an integer from 0 to 100.
C2_HypeScoreIsIntegerInRange ==
  HypeReturned =>
    /\ ~hypeResult.value.hypeScore.nan
    /\ hypeResult.value.hypeScore.v \in 0..100

\* the social and market readings are all zero: no mention on any platform,
\* no engagement, no volume, no price change
AllZeroInputs ==
  /\ social.twitterData = [count |-> 0, sentiment |-> 0, engagement |-> 0]
  /\ social.platformMentions.reddit.count = 0
  /\ social.platformMentions.telegram.count = 0
  /\ market = [volume24h |-> 0, priceChange24h |-> 0]

storedToken == CHOOSE t \in tokens : TRUE

RECURSIVE sumOfAmounts(_)
sumOfAmounts(recommendations) ==
  IF recommendations = <<>> THEN 0
  ELSE Head(recommendations).amount + sumOfAmounts(Tail(recommendations))

\* C3: the amounts of all allocations generatePortfolioAllocation returns
\* sum to at most investmentSize.
C3_AmountsWithinInvestment ==
  portfolio.status = "returned" =>
    sumOfAmounts(portfolio.value.recommendations) <= investmentSize

\* the lowercased words of a name, as a set
wordSet(name) ==
  LET words == splitWords(toLowerCase(name), <<>>)
  IN  {words[i] : i \in 1..Len(words)}

\* the positions of trendingMemes whose capped correlation is above 0.1
keptMemes ==
  {i \in 1..Len(trendingMemes) :
     ~QLeq(correlationOf(toLowerCase(tokenName), toLowerCase(tokenSymbol),
                         trendingMemes[i]), Q(1, 10))}

\* C10: calculateMemeCorrelation returns exactly the trending memes whose
\* capped correlation is above 0.1, each with a correlation in (0.1, 1.0],
\* by descending correlation, memes of equal correlation in their original
\* order; it returns the empty list for a token name that shares no word
\* with any meme and a symbol that is in no meme name.
C10_KeptMemesSortedStably ==
  correlations.status = "returned" =>
    LET result == correlations.value
    IN  /\ Len(result) = Cardinality(keptMemes)
        /\ \E from \in [1..Len(result) -> keptMemes] :
             /\ \A k, l \in 1..Len(result) : from[k] = from[l] => k = l
             /\ \A k \in 1..Len(result) :
                  /\ result[k].meme = trendingMemes[from[k]].name
                  /\ result[k].source = trendingMemes[from[k]].source
                  /\ result[k].correlation =
                       correlationOf(toLowerCase(tokenName),
                                     toLowerCase(tokenSymbol),
                                     trendingMemes[from[k]])
             /\ \A k, l \in 1..Len(result) :
                  (k < l /\ result[k].correlation = result[l].correlation)
                    => from[k] < from[l]
        /\ \A k \in 1..Len(result) :
             /\ 10 * result[k].correlation.n > result[k].correlation.d
             /\ result[k].correlation.n <= result[k].correlation.d
        /\ \A k, l \in 1..Len(result) :
             k < l => QLeq(result[l].correlation, result[k].correlation)
        /\ (\A i \in 1..Len(trendingMemes) :
              /\ wordSet(tokenName) \cap wordSet(trendingMemes[i].name) = {}
              /\ ~includesString(toLowerCase(trendingMemes[i].name),
                                 toLowerCase(tokenSymbol)))
             => result = <<>>

\* three memes are kept, two of equal correlation, and the one listed last
\* comes first
C10_Witness ==
  /\ correlations.status = "returned"
  /\ Len(correlations.value) = 3
  /\ Len(trendingMemes) = 3
  /\ correlations.value[1].meme = trendingMemes[3].name
  /\ correlations.value[2].correlation = correlations.value[3].correlation

\* |intersection of the word sets| / |union of the word sets| of two names
jaccardOfWordSets(a, b) ==
  IF wordSet(a) \cap wordSet(b) = {} THEN Q(0, 1)
  ELSE Q(Cardinality(wordSet(a) \cap wordSet(b)),
         Cardinality(wordSet(a) \cup wordSet(b)))

\* C11: for the token name and every meme name, names that repeat a word
\* included, the word overlap calculateMemeCorrelation computes is the
\* Jaccard coefficient of the two word sets, and is the same with token
\* name and meme name swapped.
C11_OverlapIsJaccard ==
  correlations.status = "returned" =>
    \A i \in 1..Len(trendingMemes) :
      LET tokenNameLC == toLowerCase(tokenName)
          memeName == toLowerCase(trendingMemes[i].name)
      IN  /\ wordOverlap(tokenNameLC, memeName)
               = jaccardOfWordSets(tokenName, trendingMemes[i].name)
          /\ wordOverlap(tokenNameLC, memeName)
               = wordOverlap(memeName, tokenNameLC)

\* the positions of trendingMemes whose name is the token's symbol, but
\* for the case of the letters
symbolNamesakes ==
  {i \in 1..Len(trendingMemes) :
     toLowerCase(trendingMemes[i].name) = toLowerCase(tokenSymbol)}

\* the correlation returned for the meme at position i of trendingMemes, if
\* one is
returnedFor(i) ==
  {correlations.value[k].correlation : k \in
     {k \in 1..Len(correlations.value) :
        correlations.value[k].meme = trendingMemes[i].name}}

\* C12 as stated: the correlation computed for a meme whose name is the
\* token's symbol (case-insensitively) is 1.0.
C12_SymbolNamesakeGivesOne ==
  correlations.status = "returned" =>
    \A i \in symbolNamesakes : returnedFor(i) = {Q(1, 1)}

\* C12: the correlation computed for a meme whose name is the token's
\* symbol (case-insensitively) is the word overlap of the token's name and
\* the meme's name plus the bonus 0.3, capped at 1.0: it is 0.3 when the
\* token's name shares no word with the meme, and 1.0 only when the overlap
\* is 0.7 or more.
C12_SymbolNamesakeGivesOverlapPlusBonus ==
  correlations.status = "returned" =>
    \A i \in symbolNamesakes :
      LET overlap == wordOverlap(toLowerCase(tokenName),
                                 toLowerCase(trendingMemes[i].name))
      IN  /\ returnedFor(i) = {QMin(Q(1, 1), QAdd(overlap, Q(3, 10)))}
          /\ (wordSet(tokenName) \cap wordSet(trendingMemes[i].name) = {})
               => returnedFor(i) = {Q(3, 10)}
          /\ returnedFor(i) = {Q(1, 1)} <=> QLeq(Q(7, 10), overlap)

\* the token "Doge" with symbol "DOGE" and a meme "doge" or "Doge": overlap
\* 1, the bonus is cut off by the cap
C12_Witness ==
  /\ correlations.status = "returned"
  /\ \E i \in symbolNamesakes :
       /\ wordOverlap(toLowerCase(tokenName),
                      toLowerCase(trendingMemes[i].name)) = Q(1, 1)
       /\ returnedFor(i) = {Q(1, 1)}

PortfolioReturned == portfolio.status = "returned"

\* the category of a recommendation, which its reasoning tells
categoryOf(recommendation) ==
  CASE recommendation.reasoning =
         "Lower risk established memecoin with good market metrics"
         -> "established"
    [] recommendation.reasoning =
         "Moderate risk newer memecoin showing promising signals"
         -> "new"
    [] recommendation.reasoning =
         "Higher risk speculative memecoin with potential for significant returns"
         -> "speculative"

\* the recommendations of a category in the portfolio returned
recommended(category) ==
  {r \in {portfolio.value.recommendations[k] :
            k \in 1..Len(portfolio.value.recommendations)} :
     categoryOf(r) = category}

C14_ConservativeNoSpeculativeAllocation ==
  (PortfolioReturned /\ riskTolerance = "conservative") =>
    recommended("speculative") = {}

\* minSafetyScore of the risk presets
minSafetyScoreOf(tolerance) ==
  CASE tolerance = "conservative" -> 70
    [] tolerance = "aggressive" -> 40
    [] tolerance = "very_aggressive" -> 30
    [] OTHER -> 60

\* C15: in every portfolio returned each established allocation has
\* safetyScore >= minSafetyScore, each new allocation has 0.7 * minSafetyScore
\* <= safetyScore < minSafetyScore, each speculative allocation has
\* safetyScore < 0.7 * minSafetyScore, and no allocated token's address is in
\* existingPortfolio.
C15_BucketsBySafetyScore ==
  PortfolioReturned =>
    LET minSafetyScore == minSafetyScoreOf(riskTolerance)
    IN  /\ \A r \in recommended("established") :
             r.safetyScore >= minSafetyScore
        /\ \A r \in recommended("new") :
             /\ 10 * r.safetyScore >= 7 * minSafetyScore
             /\ r.safetyScore < minSafetyScore
        /\ \A r \in recommended("speculative") :
             10 * r.safetyScore < 7 * minSafetyScore
        /\ \A k \in 1..Len(portfolio.value.recommendations) :
             \A h \in 1..Len(existingPortfolio) :
               portfolio.value.recommendations[k].tokenAddress
                 # existingPortfolio[h].address

\* a portfolio with a new and a speculative recommendation, while a token
\* that is held is among the processed tokens and is left out
C15_Witness ==
  /\ PortfolioReturned
  /\ recommended("new") # {}
  /\ recommended("speculative") # {}
  /\ Len(existingPortfolio) = 1
  /\ \E i \in 1..Len(processedTokens) :
       processedTokens[i].address = existingPortfolio[1].address

StrategyReturned == strategyResult.status = "returned"

\* the token has a row in social_signals that is at most 7 days old
hasRecentMentions(address) ==
  \E k \in 1..Len(social_signals) :
    /\ social_signals[k].token_address = address
    /\ social_signals[k].timestamp > Today - 4 * 7

\* the token has a row in meme_correlations
hasStoredCorrelations(address) ==
  \E k \in 1..Len(meme_correlations) :
    meme_correlations[k].token_address = address

AnalysisReturned == analysisResult.status = "returned"

\* the rows a step appends to meme_correlations
writtenRows ==
  SubSeq(meme_correlations', Len(meme_correlations) + 1,
         Len(meme_correlations'))

isRowOf(row, address, found) ==
  /\ row.token_address = address
  /\ row.meme_name = found.meme
  /\ row.correlation_score = found.correlation

\* the correlations of each entry of results.tokens with the feed
RECURSIVE correlationsOfAnalyzed(_, _)
correlationsOfAnalyzed(analyzed, memes) ==
  IF analyzed = <<>> THEN <<>>
  ELSE <<calculateMemeCorrelation(Head(analyzed).name, Head(analyzed).symbol,
                                  memes)>>
       \o correlationsOfAnalyzed(Tail(analyzed), memes)

\* C17: a call of analyzeMemeCorrelation only appends to meme_correlations,
\* and only rows of a correlation of at least 0.3; when it returns, each
\* correlation of each token it analyzed has a row among those it wrote iff it
\* is at least 0.3, it wrote no other row, a token is listed in
\* predictedOpportunities iff one of its correlations is at least 0.6, and
\* every match listed there has its row among those written.
C17_PersistedFromThreeTenthsPredictedFromSixTenths ==
  [][analysisResult.status = "not called"
       /\ analysisResult'.status # "not called" =>
     \A written \in {writtenRows} :
       /\ Len(meme_correlations') >= Len(meme_correlations)
       /\ SubSeq(meme_correlations', 1, Len(meme_correlations))
            = meme_correlations
       /\ \A r \in 1..Len(written) :
            QLeq(Q(3, 10), written[r].correlation_score)
       /\ analysisResult'.status = "returned" =>
            \A analyzed \in {analysisResult'.value.tokens},
               predicted \in {analysisResult'.value.predictedOpportunities} :
              \A found \in {correlationsOfAnalyzed(analyzed, trendingMemes)} :
                /\ \A i \in 1..Len(analyzed) : \A k \in 1..Len(found[i]) :
                     (\E r \in 1..Len(written) :
                        isRowOf(written[r], analyzed[i].address, found[i][k]))
                     <=> QLeq(Q(3, 10), found[i][k].correlation)
                /\ \A r \in 1..Len(written) :
                     \E i \in 1..Len(analyzed) : \E k \in 1..Len(found[i]) :
                       isRowOf(written[r], analyzed[i].address, found[i][k])
                /\ \A i \in 1..Len(analyzed) :
                     (\E p \in 1..Len(predicted) :
                        predicted[p].tokenAddress = analyzed[i].address)
                     <=> \E k \in 1..Len(found[i]) :
                           QLeq(Q(6, 10), found[i][k].correlation)
                /\ \A p \in 1..Len(predicted) :
                     /\ \E i \in 1..Len(analyzed) :
                          predicted[p].tokenAddress = analyzed[i].address
                     /\ \A m \in 1..Len(predicted[p].trendingMemeMatches) :
                          \E r \in 1..Len(written) :
                            isRowOf(written[r], predicted[p].tokenAddress,
                                    predicted[p].trendingMemeMatches[m])
  ]_vars

\* a call has returned with a predicted opportunity and with a token that is
\* none: one of its correlations, below 0.6, has its row in the store, and
\* another, below 0.3, has none
C17_Witness ==
  /\ AnalysisReturned
  /\ analysisResult.value.predictedOpportunities # <<>>
  /\ \E i \in 1..Len(analysisResult.value.tokens) :
       LET entry == analysisResult.value.tokens[i]
           hasRow(c) ==
             \E r \in 1..Len(meme_correlations) :
               isRowOf(meme_correlations[r], entry.address, c)
       IN  /\ \A p \in 1..Len(analysisResult.value.predictedOpportunities) :
                analysisResult.value.predictedOpportunities[p].tokenAddress
                  # entry.address
           /\ \E k \in 1..Len(entry.correlations) :
                /\ QLeq(Q(3, 10), entry.correlations[k].correlation)
                /\ hasRow(entry.correlations[k])
           /\ \E k \in 1..Len(entry.correlations) :
                /\ ~QLeq(Q(3, 10), entry.correlations[k].correlation)
                /\ ~hasRow(entry.correlations[k])

\* the places in the feed of the memes no row of meme_correlations names,
\* whatever the case of the letters
unmatchedInFeed ==
  {i \in 1..Len(trendingMemes) :
     \A r \in 1..Len(meme_correlations) :
       toLowerCase(meme_correlations[r].meme_name)
         # toLowerCase(trendingMemes[i].name)}

\* C18: when analyzeMemeCorrelation has returned, missingMemeOpportunities
\* lists memes of the feed that no row of meme_correlations, those written by
\* the call included, names case-insensitively: the first five of them in feed
\* order, or all of them when they are fewer.
C18_MissingMemesAreFirstFiveUnmatched ==
  AnalysisReturned =>
    LET missing == analysisResult.value.missingMemeOpportunities
        place(j) == CHOOSE i \in unmatchedInFeed :
                      Cardinality({u \in unmatchedInFeed : u <= i}) = j
    IN  /\ Len(missing) = Min(5, Cardinality(unmatchedInFeed))
        /\ \A j \in 1..Len(missing) :
             /\ missing[j].memeName = trendingMemes[place(j)].name
             /\ missing[j].source = trendingMemes[place(j)].source

\* a call has returned five of more than five unmatched memes, and left out a
\* meme matched by a row it wrote itself
C18_Witness ==
  /\ AnalysisReturned
  /\ Cardinality(unmatchedInFeed) > 5
  /\ Len(analysisResult.value.missingMemeOpportunities) = 5
  /\ \E i \in 1..Len(analysisResult.value.tokens) :
       LET entry == analysisResult.value.tokens[i]
       IN  \E k \in 1..Len(entry.correlations), r \in 1..Len(meme_correlations) :
             isRowOf(meme_correlations[r], entry.address, entry.correlations[k])

\* the errors of a call that found no token to analyze
NoTokenErrors ==
  {"Failed to analyze meme correlation: No tokens found to analyze"} \cup
  {"Failed to analyze meme correlation: Token not found: " \o a :
     a \in Addresses}

\* C20: a call of analyzeMemeCorrelation that found tokens to analyze
\* returns: a rejected write, or a row of tokens without a name or a symbol,
\* does not make the call throw.
C20_FailingTokenDoesNotAbortTheSweep ==
  analysisResult.status = "threw" => analysisResult.message \in NoTokenErrors

(***************************************************************************)
(* The sweeps of getPortfolioStrategy and trackWhaleMovements              *)
(***************************************************************************)
logged(message) == \E k \in 1..Len(log) : log[k] = message

\* getPortfolioStrategy has returned: a memecoin whose processing failed is
\* logged and is in no recommendation, and every other one was processed
StrategySkipsFailingTokens ==
  StrategyReturned =>
    \A t \in {t \in tokens : t.is_memecoin = 1} :
      IF t.address \in failing
        THEN /\ logged("Error processing token " \o t.address
                         \o ": database error")
             /\ \A k \in 1..Len(processedTokens) :
                  processedTokens[k].address # t.address
             /\ \A k \in 1..Len(strategyResult.value.portfolio.recommendations) :
                  strategyResult.value.portfolio.recommendations[k].tokenAddress
                    # t.address
        ELSE \E k \in 1..Len(processedTokens) :
               processedTokens[k].address = t.address

\* the tokens trackWhaleMovements was asked to track
trackedTokens ==
  {t \in tokens :
     /\ t.is_memecoin = 1
     /\ whaleRequest.tokenAddress \in {Undefined, t.address}}

requestedLimit == IF whaleRequest.limit = 0 THEN 10 ELSE whaleRequest.limit

requestedMinAmount ==
  IF whaleRequest.minAmount = 0 THEN 1000 ELSE whaleRequest.minAmount

\* the changes of a fetched transaction that are whale transfers of the token
whaleChanges(t, sig) ==
  {k \in 1..Len(sig.tx.changes) :
     /\ sig.tx.changes[k].mint = t.address
     /\ sig.tx.changes[k].whale
     /\ Abs(sig.tx.changes[k].after - sig.tx.changes[k].before)
          >= requestedMinAmount}

signaturesOf(t) ==
  IF ledger[t.address].lookupFails THEN {}
  ELSE {ledger[t.address].signatures[k] :
          k \in 1..Len(ledger[t.address].signatures)}

\* the transaction cannot be fetched, or its first transfer cannot be written
providerFailed(sig) == sig.fetchFails

storeFailed(t, sig) ==
  /\ ~sig.fetchFails /\ sig.tx # Null
  /\ whaleChanges(t, sig) # {} /\ t.address \in failing

transactionLogged(t, sig) ==
  /\ providerFailed(sig) =>
       logged("Error processing transaction " \o sig.signature
                \o ": provider error")
  /\ storeFailed(t, sig) =>
       logged("Error processing transaction " \o sig.signature
                \o ": database error")

movementsOf(t) ==
  {k \in 1..Len(whaleResult.value.movements) :
     whaleResult.value.movements[k].tokenAddress = t.address}

\* the whale transfers of the transactions that did not fail
RECURSIVE sumOver(_, _)
sumOver(set, f) ==
  IF set = {} THEN 0
  ELSE LET x == CHOOSE x \in set : TRUE IN f[x] + sumOver(set \ {x}, f)

transfersFound ==
  LET pairs == {<<t, sig>> \in tokens \X UNION {signaturesOf(t) : t \in tokens} :
                  /\ t \in trackedTokens /\ sig \in signaturesOf(t)
                  /\ ~providerFailed(sig) /\ ~storeFailed(t, sig)
                  /\ sig.tx # Null}
  IN  sumOver(pairs, [p \in pairs |-> Cardinality(whaleChanges(p[1], p[2]))])

\* C19: when getPortfolioStrategy returns, a memecoin whose processing
\* failed is logged and skipped and the others are processed; a call of
\* trackWhaleMovements that found tokens to track returns; a token whose
\* signatures cannot be listed is logged and has no movement in the result; a
\* transaction that cannot be fetched or written is logged and has no movement
\* in the result, and the other transactions of its token are kept: totalFound
\* counts the whale transfers of all the transactions that did not fail, and
\* movements holds the first of them up to the limit.
C19_FailingTokenOrTransactionIsSkipped ==
  /\ StrategySkipsFailingTokens
  /\ whaleResult # NotCalled /\ trackedTokens # {} =>
       /\ whaleResult.status = "returned"
       /\ \A t \in trackedTokens :
            IF ledger[t.address].lookupFails
              THEN /\ logged("Error tracking movements for token "
                               \o t.address \o ": provider error")
                   /\ movementsOf(t) = {}
              ELSE \A sig \in signaturesOf(t) :
                     /\ transactionLogged(t, sig)
                     /\ providerFailed(sig) \/ storeFailed(t, sig) =>
                          \A k \in 1..Len(whaleResult.value.movements) :
                            whaleResult.value.movements[k].transactionHash
                              # sig.signature
       /\ whaleResult.value.totalFound = transfersFound
       /\ Len(whaleResult.value.movements)
            = Min(requestedLimit, transfersFound)
       /\ Len(whale_movements) = transfersFound

\* both calls have returned; getPortfolioStrategy skipped one memecoin and
\* processed another; trackWhaleMovements could not fetch one transaction of
\* a token and returned a movement of another transaction of the same token
C19_Witness ==
  /\ StrategyReturned
  /\ processedTokens # <<>>
  /\ \E t \in tokens : t.is_memecoin = 1 /\ t.address \in failing
  /\ whaleResult.status = "returned"
  /\ \E t \in trackedTokens :
       /\ \E sig \in signaturesOf(t) : providerFailed(sig)
       /\ movementsOf(t) # {}

\* the tokens of the sweep with a failure of their own
failedTokens ==
  {t \in trackedTokens :
     \/ ledger[t.address].lookupFails
     \/ \E sig \in signaturesOf(t) : providerFailed(sig) \/ storeFailed(t, sig)}

\* C19 as stated: in both sweeps the call returns, and a token with a
\* failure is logged and skipped: the result holds nothing of it.
C19_FailingTokenIsSkipped ==
  /\ StrategySkipsFailingTokens
  /\ whaleResult # NotCalled /\ trackedTokens # {} =>
       /\ whaleResult.status = "returned"
       /\ \A t \in failedTokens :
            /\ \/ logged("Error tracking movements for token " \o t.address
                           \o ": provider error")
               \/ \E sig \in signaturesOf(t) :
                    /\ providerFailed(sig) \/ storeFailed(t, sig)
                    /\ transactionLogged(t, sig)
            /\ movementsOf(t) = {}

(***************************************************************************)
(* The providers                                                           *)
(***************************************************************************)
\* getHypeScore has asked the providers
providersAsked == social # NotCalled

jupiterDown ==
  IF providers.jupiter.fails THEN TRUE ELSE providers.jupiter.priceData = Null

twitterDown ==
  IF providers.twitter = Null THEN TRUE ELSE providers.twitter.fails

databaseRejected ==
  hypeResult = Threw("Failed to calculate hype score: database error")

withoutAddress(call) ==
  /\ call # NotCalled
  /\ call.name \in {"getHypeScore", "runRugpullScan"}
  /\ call.parameters.tokenAddress \in {Undefined, ""}

handlerOutcome(name) == IF name = "getHypeScore" THEN hypeResult ELSE scanResult

C23_ExecuteAnswers400Or500OrResult ==
  request # NotCalled =>
    IF request.name \notin LoadedFunctions
      THEN /\ response.status = 400
           /\ DOMAIN response.body = {"error"}
      ELSE /\ handlerOutcome(request.name).status = "threw" =>
                response = [status |-> 500,
                            body |-> [error |->
                                      handlerOutcome(request.name).message]]
           /\ handlerOutcome(request.name).status = "returned" =>
                response = [status |-> 200,
                            body |-> [result |->
                                      handlerOutcome(request.name).value]]


(***************************************************************************)
(* C30: the server listens only once initializeDatabase has resolved; when *)
(* it rejects, the process exits with code 1 and stays exited; the execute *)
(* endpoint has dispatched nothing, and no handler has read or written a   *)
(* store, unless the database is initialized                               *)
(***************************************************************************)
nothingDispatched ==
  /\ request = NotCalled
  /\ response = NotCalled
  /\ hypeResult = NotCalled
  /\ scanResult = NotCalled
  /\ safety_scores = <<>>
  /\ social_signals = <<>>

C30_ListensOnlyAfterInitialization ==
  [][/\ server.phase = "exited" => server' = server
     /\ server'.phase = "listening" => server'.database = "initialized"
     /\ server'.phase = "exited" =>
          server'.exitCode = 1 /\ server'.database # "initialized"
     /\ server'.database # "initialized" => nothingDispatched']_vars

\* a handler has run and written its row, on the initialized database
C30_Witness ==
  /\ server = [phase |-> "listening", database |-> "initialized"]
  /\ request # NotCalled
  /\ request.name = "runRugpullScan"
  /\ response.status = 200
  /\ Len(safety_scores) = 1


(***************************************************************************)
(* C24: a getHypeScore call that returns has appended exactly one row to   *)
(* social_signals: the token, platform 'twitter' and the count, sentiment  *)
(* and engagement that searchTwitterMentions gave; a call that throws      *)
(* (missing address, token not in the store, INSERT rejected) has appended *)
(* none; no call writes a row of another table                             *)
(***************************************************************************)
isHypeCall(call) == call # NotCalled /\ call.name = "getHypeScore"

twitterRow(tokenAddress, twitterData) ==
  [token_address |-> tokenAddress,
   platform |-> "twitter",
   mentions |-> twitterData.count,
   sentiment_score |-> twitterData.sentiment,
   engagement_score |-> twitterData.engagement,
   timestamp |-> Today]

C24_OneTwitterRowPerSuccessfulCall ==
  [][isHypeCall(request') =>
       /\ hypeResult'.status = "returned" =>
            social_signals' =
              Append(social_signals,
                     twitterRow(request'.parameters.tokenAddress,
                                searchTwitterMentions(providers.twitter)))
       /\ hypeResult'.status = "threw" => social_signals' = social_signals
       /\ UNCHANGED <<tokens, safety_scores, meme_correlations,
                      whale_movements>>]_vars

\* the second successful call: it added the second row, of the tweet found
C24_Witness ==
  /\ isHypeCall(request)
  /\ hypeResult.status = "returned"
  /\ Len(social_signals) = 2
  /\ social_signals[2].mentions = 1
  /\ social_signals[2].platform = "twitter"


(***************************************************************************)
(* C28: the scam similarity is 0 in every scan, so every result of         *)
(* runRugpullScan, and every row it writes, has a safety score of at least *)
(* 30 and a risk level other than Extreme, whatever the chain reports and  *)
(* also when the lookup on the chain fails                                 *)
(***************************************************************************)
C28_ScanNeverBelowThirtyNorExtreme ==
  /\ scanResult.status = "returned" =>
       /\ scanResult.value.similarityScore = 0
       /\ scanResult.value.safetyScore >= 30
       /\ scanResult.value.riskLevel \in {"Low", "Medium", "High"}
  /\ \A k \in 1..Len(safety_scores) :
       /\ safety_scores[k].rugpull_risk_score = 0
       /\ safety_scores[k].overall_safety_score >= 30

\* the lowest scan there is: the lookup failed
C28_Witness ==
  /\ scanResult.status = "returned"
  /\ chain.lookupFails
  /\ scanAnalysis.value.safetyScore = 0
  /\ scanResult.value.safetyScore = 30
  /\ scanResult.value.riskLevel = "High"
  /\ Len(safety_scores) = 1


(***************************************************************************)
(* C26: a bucket is cut to its cap before the tokens held are removed: the *)
(* tokens recommended in a category are exactly the first cap tokens of    *)
(* the bucket by opportunityScore that are not held; a held token among    *)
(* them is not replaced by the next one of the bucket                      *)
(***************************************************************************)
capOf(category) ==
  LET maxTokens == parametersOf(riskTolerance).maxTokens
  IN  IF category = "speculative"
        THEN Max(1, (2 * maxTokens) \div 10)
        ELSE Max(1, (4 * maxTokens) \div 10)

\* the category of a processed token, by its safety score
bucketOf(t) ==
  LET minSafetyScore == parametersOf(riskTolerance).minSafetyScore
  IN  IF t.safetyScore >= minSafetyScore THEN "established"
      ELSE IF 10 * t.safetyScore >= 7 * minSafetyScore THEN "new"
      ELSE "speculative"

\* how many tokens of its bucket come before token i by opportunityScore,
\* the order of the list breaking the ties
rankInBucket(i) ==
  Cardinality({j \in 1..Len(processedTokens) :
    /\ bucketOf(processedTokens[j]) = bucketOf(processedTokens[i])
    /\ \/ processedTokens[j].opportunityScore
            > processedTokens[i].opportunityScore
       \/ /\ processedTokens[j].opportunityScore
               = processedTokens[i].opportunityScore
          /\ j < i})

heldAddresses == {existingPortfolio[k].address : k \in 1..Len(existingPortfolio)}

topOfBucket(category) ==
  {i \in 1..Len(processedTokens) :
     /\ bucketOf(processedTokens[i]) = category
     /\ rankInBucket(i) < capOf(category)}

recommendedIn(category) ==
  LET r == portfolio.value.recommendations
  IN  {k \in 1..Len(r) : categoryOf(r[k]) = category}

C26_BucketIsTopCapMinusHeld ==
  portfolio.status = "returned" =>
    \A category \in {"established", "new", "speculative"} :
      LET r == portfolio.value.recommendations
          expected == {processedTokens[i].address : i \in topOfBucket(category)}
                        \ heldAddresses
      IN  /\ {r[k].tokenAddress : k \in recommendedIn(category)} = expected
          /\ Cardinality(recommendedIn(category)) = Cardinality(expected)

\* the first of two established tokens is held and the cap is one: the
\* second is not recommended and the bucket stays empty
C26_Witness ==
  /\ portfolio.status = "returned"
  /\ capOf("established") = 1
  /\ Len(processedTokens) >= 2
  /\ bucketOf(processedTokens[1]) = "established"
  /\ bucketOf(processedTokens[2]) = "established"
  /\ processedTokens[1].address \in heldAddresses
  /\ recommendedIn("established") = {}


(***************************************************************************)
(* C27: the amounts of the n tokens of a bucket, before they are rounded   *)
(* to the cent, sum to bucketAllocation * (3n + 1) / (4n): all of it when  *)
(* n = 1, less than it when n >= 2 and the allocation is not 0.  The       *)
(* allocation of a bucket is its share of investmentSize whether or not    *)
(* another bucket is empty, the speculative one being investmentSize less  *)
(* the established and the new share                                       *)
(***************************************************************************)
\* the allocation of a bucket, in cents
bucketAllocationOf(category) ==
  LET parameters == parametersOf(riskTolerance)
  IN  CASE category = "established" ->
             Q(investmentSize * parameters.estabRatio, 10)
        [] category = "new" -> Q(investmentSize * parameters.newRatio, 10)
        [] category = "speculative" ->
             Q(10 * investmentSize - investmentSize * parameters.estabRatio
                 - investmentSize * parameters.newRatio, 10)

RECURSIVE sumBeforeRounding(_, _, _)
sumBeforeRounding(allocation, n, count) ==
  IF count = 0 THEN Q(0, 1)
  ELSE QAdd(sumBeforeRounding(allocation, n, count - 1),
            bucketAmount(allocation, n, count - 1))

\* the recommendations of a category, in the order of the result
recommendationsIn(category) ==
  SelectSeq(portfolio.value.recommendations,
            LAMBDA r : categoryOf(r) = category)

bucketSumsAsWeighted(category, strictlyLessFromTwo) ==
  LET found == recommendationsIn(category)
      n == Len(found)
      allocation == bucketAllocationOf(category)
      sum == sumBeforeRounding(allocation, n, n)
  IN  /\ \A k \in 1..n :
           LET amount == bucketAmount(allocation, n, k - 1)
           IN  found[k].amount = MathRound(amount.n, amount.d)
      /\ n >= 1 => sum = QMul(allocation, Q(3 * n + 1, 4 * n))
      /\ n = 1 => sum = allocation
      /\ n >= 2 /\ strictlyLessFromTwo => ~QLeq(allocation, sum)
      /\ n >= 2 => QLeq(sum, allocation)

C27_BucketAmountsSumToWeightedShare ==
  portfolio.status = "returned" =>
    \A category \in {"established", "new", "speculative"} :
      bucketSumsAsWeighted(category, bucketAllocationOf(category).n # 0)

\* two speculative tokens share 2 of the 5 cents unevenly while the
\* established and the new bucket are empty
C27_Witness ==
  /\ portfolio.status = "returned"
  /\ investmentSize = 5
  /\ Len(recommendationsIn("established")) = 0
  /\ Len(recommendationsIn("new")) = 0
  /\ Len(recommendationsIn("speculative")) = 2
  /\ bucketAllocationOf("speculative") = Q(3, 2)
  /\ sumBeforeRounding(bucketAllocationOf("speculative"), 2, 2) = Q(21, 16)

\* C27 as stated: strictly less whenever n >= 2
C27_BucketSumStrictlyLessFromTwo ==
  portfolio.status = "returned" =>
    \A category \in {"established", "new", "speculative"} :
      bucketSumsAsWeighted(category, TRUE)


(***************************************************************************)
(* C25: the result of a getPortfolioStrategy call is the one the tables    *)
(* social_signals and meme_correlations give as they were when the call    *)
(* started: a getHypeScore call that runs while the call is in progress    *)
(* does not change it                                                      *)
(***************************************************************************)
strategyFrom(signalRows, correlationRows) ==
  LET loop == processTokens(recentMemecoins(tokens, safety_scores), failing,
                            chain, market, signalRows, correlationRows, Today)
      allocation == generatePortfolioAllocation(
                      sortByOpportunity(loop.processed), riskTolerance,
                      investmentSize, existingPortfolio)
  IN  [riskTolerance |-> riskTolerance,
       investmentSize |-> investmentSize,
       strategy |-> generateStrategy(allocation, riskTolerance),
       portfolio |-> allocation]

C25_ResultAsAtStartOfCall ==
  strategyResult.status = "returned" =>
    /\ strategyResult.value =
         strategyFrom(strategyLoop.atStart.social_signals,
                      strategyLoop.atStart.meme_correlations)
    /\ processedTokens =
         sortByOpportunity(
           processTokens(recentMemecoins(tokens, safety_scores), failing,
                         chain, market, strategyLoop.atStart.social_signals,
                         strategyLoop.atStart.meme_correlations,
                         Today).processed)


(***************************************************************************)
(* C29: every token scanNewMemecoins counts in newMemecoinsFound and lists *)
(* in latestMemecoins has its row in table tokens, and no address is       *)
(* counted twice in one scan, also when the database rejects an INSERT     *)
(***************************************************************************)
C29_CountedOnlyIfWrittenAndOnce ==
  discoveryResult.status = "returned" =>
    LET latest == discoveryResult.value.latestMemecoins
    IN  /\ \A k \in 1..Len(latest) : \E t \in tokens : t.address = latest[k]
        /\ \A i, j \in 1..Len(latest) : latest[i] = latest[j] => i = j
        /\ discoveryResult.value.newMemecoinsFound
             = Cardinality({latest[k] : k \in 1..Len(latest)})

====
